---------------------------- MODULE Spec2Model ----------------------------
(***************************************************************************)
(* AEPS health dashboards (aeps_health_dashboard.py and                    *)
(* aeps_health_dashboard_secure.py).                                       *)
(*                                                                         *)
(* The statistical content of both scripts lives in the text of the        *)
(* warehouse queries inside get_bigquery_data and in a few lines of pandas *)
(* that post-process the returned frames.  The model evaluates the queries *)
(* over bags of joined event rows with the semantics of the SQL dialect    *)
(* (NULL propagation, COUNT/COUNTIF/SUM/AVG skipping NULLs, SAFE_DIVIDE,   *)
(* ROUND half away from zero, STDDEV_SAMP NULL below two values) and the   *)
(* pandas/numpy/Python semantics of the post-processing (NaN compares      *)
(* false, mean() skips NaN, max(0, nan) is 0).                             *)
(*                                                                         *)
(* Numbers.  Every numeric cell is an exact rational [def, n, d]; def is   *)
(* FALSE for SQL NULL / pandas NaN.  A standard deviation is carried as    *)
(* its square (the variance), so every comparison c < m - k*s is decided   *)
(* exactly; where the source rounds a standard deviation the rounded value *)
(* itself is computed and carried.  Products that do not fit the checker's *)
(* integers are formed as digit sequences (Big...).                        *)
(***************************************************************************)
EXTENDS Integers, Sequences, FiniteSets, Bags, TLC

VARIABLES
    txEvents,          \* bag of combined_data rows of the transaction stream
    bioEvents,         \* bag of combined_data rows of the bio-auth stream
    stateEvents,       \* bag of joined request/response rows with a state
    approx_rank,       \* which middle element APPROX_QUANTILES returns
    selected_date,     \* st.sidebar.date_input
    current_date,      \* CURRENT_DATE() of the warehouse
    anomaly_k,         \* st.sidebar.slider, in halves (2.0 is 4)
    script,            \* which dashboard script produced the output
    transaction_data,  \* frame returned for "transaction_success"
    bio_auth_data,     \* frame returned for the bio-auth query
    state_data,        \* frame returned for "state_metrics"
    tx2,               \* hour-filtered copy with amount_cr_anomaly_local
    health,            \* the three health scores of a run
    movers,            \* gainers and losers of the state page
    cache,             \* st.cache_data entries of get_bigquery_data
    pc,                \* position of the script run
    alerts,            \* the anomalies a run counts and lists
    session,           \* st.session_state and the widgets of the sidebar
    credentials,       \* the required credential fields that have a value
    now,               \* datetime.now().timestamp(), in seconds
    calls              \* the calls of get_bigquery_data of the latest run

vars == <<txEvents, bioEvents, stateEvents, approx_rank, selected_date,
          current_date, anomaly_k, script, transaction_data, bio_auth_data,
          state_data, tx2, health, movers, cache, pc, alerts, session,
          credentials, now, calls>>

-----------------------------------------------------------------------------
(* Bounds of the model *)

\* the number of distinct kinds of event rows the warehouse holds
MaxKinds == 3

-----------------------------------------------------------------------------
(* Exact arithmetic *)

Abs(x) == IF x < 0 THEN -x ELSE x

Min2(a, b) == IF a < b THEN a ELSE b

Max2(a, b) == IF a > b THEN a ELSE b

RECURSIVE Gcd(_, _)
Gcd(a, b) == IF b = 0 THEN a ELSE Gcd(b, a % b)

\* a/b < c/d for naturals a, c and positive b, d, without forming products
RECURSIVE FracLess(_, _, _, _)
FracLess(a, b, c, d) ==
    LET q1 == a \div b
        q2 == c \div d
        r1 == a % b
        r2 == c % d
    IN  IF q1 # q2 THEN q1 < q2
        ELSE IF r2 = 0 THEN FALSE
        ELSE IF r1 = 0 THEN TRUE
        ELSE FracLess(d, r2, b, r1)

\* a*b < c*d for naturals, without forming the products
ProdLess(a, b, c, d) ==
    IF c = 0 \/ d = 0 THEN FALSE
    ELSE IF a = 0 \/ b = 0 THEN TRUE
    ELSE FracLess(a, d, c, b)

RECURSIVE SumFn(_)
SumFn(f) ==
    IF DOMAIN f = {} THEN 0
    ELSE LET x == CHOOSE y \in DOMAIN f : TRUE
         IN  f[x] + SumFn([y \in DOMAIN f \ {x} |-> f[y]])

NULL == [def |-> FALSE, n |-> 0, d |-> 1]

Rat(num, den) ==
    LET g == Gcd(Abs(num), den)
    IN  [def |-> TRUE, n |-> num \div g, d |-> den \div g]

Int2Rat(i) == [def |-> TRUE, n |-> i, d |-> 1]

\* x < y on defined rationals
RatLess(x, y) ==
    IF x.n < 0 /\ y.n >= 0 THEN TRUE
    ELSE IF x.n >= 0 /\ y.n < 0 THEN FALSE
    ELSE IF x.n >= 0 THEN ProdLess(x.n, y.d, y.n, x.d)
    ELSE ProdLess(-y.n, x.d, -x.n, y.d)

Lcm(a, b) == (a \div Gcd(a, b)) * b

RatAdd(x, y) ==
    LET l == Lcm(x.d, y.d)
    IN  Rat(x.n * (l \div x.d) + y.n * (l \div y.d), l)

RatNeg(x) == [def |-> TRUE, n |-> -x.n, d |-> x.d]

RatSub(x, y) == RatAdd(x, RatNeg(y))

RatMul(x, y) ==
    LET g1 == Gcd(Abs(x.n), y.d)
        g2 == Gcd(Abs(y.n), x.d)
    IN  Rat((x.n \div g1) * (y.n \div g2), (x.d \div g2) * (y.d \div g1))

\* x / i for a positive integer i
RatDivInt(x, i) ==
    LET g == Gcd(Abs(x.n), i)
    IN  Rat(x.n \div g, x.d * (i \div g))

\* Natural numbers of any size: base-10000 digits, least significant first
RECURSIVE BigOf(_)
BigOf(a) == IF a = 0 THEN << >> ELSE <<a % 10000>> \o BigOf(a \div 10000)

RECURSIVE BigAddC(_, _, _)
BigAddC(X, Y, carry) ==
    IF X = << >> /\ Y = << >>
    THEN IF carry = 0 THEN << >> ELSE <<carry>>
    ELSE LET x == IF X = << >> THEN 0 ELSE Head(X)
             y == IF Y = << >> THEN 0 ELSE Head(Y)
             s == x + y + carry
         IN  <<s % 10000>> \o BigAddC(IF X = << >> THEN X ELSE Tail(X),
                                      IF Y = << >> THEN Y ELSE Tail(Y),
                                      s \div 10000)

RECURSIVE BigMulDigit(_, _, _)
BigMulDigit(X, m, carry) ==
    IF X = << >> THEN BigOf(carry)
    ELSE LET s == Head(X) * m + carry
         IN  <<s % 10000>> \o BigMulDigit(Tail(X), m, s \div 10000)

RECURSIVE BigMul(_, _)
BigMul(X, Y) ==
    IF Y = << >> \/ X = << >> THEN << >>
    ELSE BigAddC(BigMulDigit(X, Head(Y), 0), <<0>> \o BigMul(X, Tail(Y)), 0)

RECURSIVE BigStrip(_)
BigStrip(X) ==
    IF X = << >> THEN X
    ELSE IF X[Len(X)] = 0 THEN BigStrip(SubSeq(X, 1, Len(X) - 1))
    ELSE X

RECURSIVE BigLessEq(_, _)
\* X < Y for stripped digit sequences of equal length
BigLessEq(X, Y) ==
    IF X = << >> THEN FALSE
    ELSE IF X[Len(X)] # Y[Len(Y)] THEN X[Len(X)] < Y[Len(Y)]
    ELSE BigLessEq(SubSeq(X, 1, Len(X) - 1), SubSeq(Y, 1, Len(Y) - 1))

BigLess(X, Y) ==
    LET A == BigStrip(X)
        B == BigStrip(Y)
    IN  IF Len(A) # Len(B) THEN Len(A) < Len(B) ELSE BigLessEq(A, B)

\* the product of a sequence of naturals
RECURSIVE BigProd(_)
BigProd(s) == IF s = << >> THEN <<1>> ELSE BigMul(BigOf(Head(s)), BigProd(Tail(s)))

-----------------------------------------------------------------------------
(* SQL scalar and aggregate functions, over sequences of nullable cells *)

\* SAFE_DIVIDE(a, b) of two integer counts: NULL when b is 0
SAFE_DIVIDE(a, b) == IF b = 0 THEN NULL ELSE Rat(a, b)

\* SAFE_DIVIDE of two nullable cells
SafeDivideCells(x, y) ==
    IF ~x.def \/ ~y.def \/ y.n = 0 THEN NULL
    ELSE IF y.n > 0 THEN RatMul(x, Rat(y.d, y.n))
    ELSE RatMul(x, Rat(-y.d, -y.n))

\* x * 100, NULL stays NULL
Times100(x) == IF x.def THEN RatMul(x, Int2Rat(100)) ELSE NULL

\* ROUND(x, digits) with p = 10^digits: half away from zero, NULL stays NULL
ROUND(x, p) ==
    IF ~x.def THEN NULL
    ELSE LET q == (2 * Abs(x.n) * p + x.d) \div (2 * x.d)
         IN  Rat(IF x.n < 0 THEN -q ELSE q, p)

NonNull(s) == SelectSeq(s, LAMBDA x : x.def)

RECURSIVE RatSum(_)
RatSum(s) == IF s = << >> THEN Int2Rat(0) ELSE RatAdd(Head(s), RatSum(Tail(s)))

\* AVG: mean of the non-NULL values, NULL when there is none
AVG(s) ==
    LET v == NonNull(s)
    IN  IF v = << >> THEN NULL ELSE RatDivInt(RatSum(v), Len(v))

\* sum of squared deviations from the mean of a non-empty sequence
SumSqDev(v) ==
    LET m == AVG(v)
    IN  RatSum([i \in 1..Len(v) |-> RatMul(RatSub(v[i], m), RatSub(v[i], m))])

\* STDDEV_SAMP, carried squared: NULL below two non-NULL values
STDDEV_SAMP_SQ(s) ==
    LET v == NonNull(s)
    IN  IF Len(v) < 2 THEN NULL ELSE RatDivInt(SumSqDev(v), Len(v) - 1)

\* STDDEV_POP, carried squared: NULL when there is no non-NULL value
STDDEV_POP_SQ(s) ==
    LET v == NonNull(s)
    IN  IF v = << >> THEN NULL ELSE RatDivInt(SumSqDev(v), Len(v))

\* ROUND(SQRT(v), 2) of a non-negative rational: the r/100 nearest to the root
RoundedSqrt(v) ==
    LET Past(r) == BigLess(BigProd(<<40000, v.n>>),
                           BigProd(<<2 * r + 1, 2 * r + 1, v.d>>))
        RECURSIVE Up(_)
        Up(h) == IF Past(h) THEN h ELSE Up(2 * h + 1)
        RECURSIVE Bin(_, _)
        Bin(lo, hi) ==
            IF lo = hi THEN lo
            ELSE LET mid == (lo + hi) \div 2
                 IN  IF Past(mid) THEN Bin(lo, mid) ELSE Bin(mid + 1, hi)
    IN  IF ~v.def THEN NULL ELSE Rat(Bin(0, Up(0)), 100)

\* ascending insertion sort of defined rationals
RECURSIVE InsertSorted(_, _)
InsertSorted(x, s) ==
    IF s = << >> THEN <<x>>
    ELSE IF RatLess(Head(s), x) THEN <<Head(s)>> \o InsertSorted(x, Tail(s))
    ELSE <<x>> \o s

RECURSIVE SortRat(_)
SortRat(s) == IF s = << >> THEN s ELSE InsertSorted(Head(s), SortRat(Tail(s)))

\* APPROX_QUANTILES(x, 2)[OFFSET(1)]: the middle element of the sorted
\* non-NULL values; for an even count the engine returns one of the two
\* middle elements, rank says which
APPROX_MEDIAN(s, rank) ==
    LET v == SortRat(NonNull(s))
        n == Len(v)
    IN  IF n = 0 THEN NULL
        ELSE IF n % 2 = 1 THEN v[(n + 1) \div 2]
        ELSE IF rank = "lower" THEN v[n \div 2]
        ELSE v[n \div 2 + 1]

\* c < m - (kh/2) * sqrt(var) as a SQL condition: not TRUE when a cell is NULL
BelowBandSq(c, m, kh, var) ==
    /\ c.def /\ m.def /\ var.def
    /\ LET dev == RatSub(m, c)
       IN  /\ dev.n > 0
           /\ BigLess(BigProd(<<kh, kh, var.n, dev.d, dev.d>>),
                      BigProd(<<4, dev.n, dev.n, var.d>>))

\* c > m + (kh/2) * sqrt(var) as a SQL condition: not TRUE when a cell is NULL
AboveBandSq(c, m, kh, var) ==
    /\ c.def /\ m.def /\ var.def
    /\ LET dev == RatSub(c, m)
       IN  /\ dev.n > 0
           /\ BigLess(BigProd(<<kh, kh, var.n, dev.d, dev.d>>),
                      BigProd(<<4, dev.n, dev.n, var.d>>))

-----------------------------------------------------------------------------
(* Strings of the event rows *)

\* SQL NULL in a string column
NullStr == "<NULL>"

\* LOWER() that reads a NULL aggregator as 'ybl'
LOWER_null_as_ybl(str) ==
    CASE str = "SUCCESS" -> "success"
      [] str = "Success" -> "success"
      [] str = "FAILED"  -> "failed"
      [] str = "YBL"     -> "ybl"
      [] str = "NSDL"    -> "nsdl"
      [] str = "YBLN"    -> "ybln"
      [] str = "FINO"    -> "fino"
      [] str = NullStr   -> "ybl"
      [] OTHER           -> str

\* LOWER() on the vocabulary of the modelled rows; LOWER(NULL) is NULL
LOWER(str) ==
    CASE str = "SUCCESS" -> "success"
      [] str = "Success" -> "success"
      [] str = "FAILED"  -> "failed"
      [] str = "YBL"     -> "ybl"
      [] str = "NSDL"    -> "nsdl"
      [] str = "YBLN"    -> "ybln"
      [] str = "FINO"    -> "fino"
      [] OTHER           -> str

\* COUNTIF / COUNT(CASE WHEN .. END): the number of rows of a bag among S
CountIf(B, S) == SumFn([e \in S |-> B[e]])

\* the rows S of a bag, with their multiplicities
Where(B, S) == [e \in S |-> B[e]]

\* the elements of a finite set of integers, ascending
RECURSIVE Ascending(_)
Ascending(S) ==
    IF S = {} THEN << >>
    ELSE LET m == CHOOSE x \in S : \A y \in S : x <= y
         IN  <<m>> \o Ascending(S \ {m})

-----------------------------------------------------------------------------
(* Transaction stream: hourly_metrics, shared by both scripts *)

\* combined_data restricted by DATE(op_time) BETWEEN last_7_days_start AND today
TxWindow(E, today) ==
    Where(E, {e \in DOMAIN E : e.date >= today - 7 /\ e.date <= today})

IsSuccessTx(e) == LOWER(e.spice_message) = "success"

\* hourly_metrics whose amount sums over every row of the group
TxHourlyRow_all_amounts(E, d, h) ==
    LET G   == Where(E, {e \in DOMAIN E : e.date = d /\ e.hour = h})
        S   == Where(G, {x \in DOMAIN G : IsSuccessTx(x)})
    IN  [date |-> d,
         hour |-> h,
         total_amount_cr |->
             Rat(SumFn([e \in DOMAIN G |-> G[e] * e.amount]), 10000000),
         total_txns   |-> CountIf(G, DOMAIN G),
         success_txns |-> CountIf(G, {x \in DOMAIN G : IsSuccessTx(x)}),
         ybl_success  |-> CountIf(S, {e \in DOMAIN S : LOWER(e.aggregator) = "ybl"}),
         ybl_total    |-> CountIf(G, {e \in DOMAIN G : LOWER(e.aggregator) = "ybl"}),
         nsdl_success |-> CountIf(S, {e \in DOMAIN S : LOWER(e.aggregator) = "nsdl"}),
         nsdl_total   |-> CountIf(G, {e \in DOMAIN G : LOWER(e.aggregator) = "nsdl"}),
         ybln_success |-> CountIf(S, {e \in DOMAIN S : LOWER(e.aggregator) = "ybln"}),
         ybln_total   |-> CountIf(G, {e \in DOMAIN G : LOWER(e.aggregator) = "ybln"})]

\* one row of hourly_metrics: GROUP BY date, hour
TxHourlyRow(E, d, h) ==
    LET G   == Where(E, {e \in DOMAIN E : e.date = d /\ e.hour = h})
        S   == Where(G, {x \in DOMAIN G : IsSuccessTx(x)})
    IN  [date |-> d,
         hour |-> h,
         total_amount_cr |->
             IF DOMAIN S = {} THEN NULL
             ELSE Rat(SumFn([e \in DOMAIN S |-> S[e] * e.amount]), 10000000),
         total_txns   |-> CountIf(G, DOMAIN G),
         success_txns |-> CountIf(G, {x \in DOMAIN G : IsSuccessTx(x)}),
         ybl_success  |-> CountIf(S, {e \in DOMAIN S : LOWER(e.aggregator) = "ybl"}),
         ybl_total    |-> CountIf(G, {e \in DOMAIN G : LOWER(e.aggregator) = "ybl"}),
         nsdl_success |-> CountIf(S, {e \in DOMAIN S : LOWER(e.aggregator) = "nsdl"}),
         nsdl_total   |-> CountIf(G, {e \in DOMAIN G : LOWER(e.aggregator) = "nsdl"}),
         ybln_success |-> CountIf(S, {e \in DOMAIN S : LOWER(e.aggregator) = "ybln"}),
         ybln_total   |-> CountIf(G, {e \in DOMAIN G : LOWER(e.aggregator) = "ybln"})]

tx_hourly_metrics(E, today) ==
    LET W == TxWindow(E, today)
    IN  {TxHourlyRow(W, k[1], k[2]) : k \in {<<e.date, e.hour>> : e \in DOMAIN W}}

\* the rows of a set of hourly rows for hour h on the dates lo..hi, as a
\* sequence in date order
HistoryOf(M, h, lo, hi) ==
    LET ds == Ascending({m.date : m \in {x \in M : x.hour = h /\ x.date >= lo /\ x.date <= hi}})
    IN  [i \in 1..Len(ds) |-> CHOOSE m \in M : m.hour = h /\ m.date = ds[i]]

\* the rows of a sequence of rows
Range(rows) == {rows[i] : i \in 1..Len(rows)}

\* column col of a sequence of rows, col giving the cell of each row
Column(rows, col) == [i \in 1..Len(rows) |-> col[rows[i]]]

\* what get_bigquery_data returns: None, or a frame with its columns and rows
None == [is_none |-> TRUE, columns |-> {}, rows |-> << >>]

Frame(columns, rows) == [is_none |-> FALSE, columns |-> columns, rows |-> rows]

\* DataFrame.empty
Empty(df) == df.rows = << >>

-----------------------------------------------------------------------------
(* "transaction_success" of aeps_health_dashboard_secure.py *)

\* CASE WHEN total > 0 THEN ROUND((success / total) * 100, 2) ELSE 0 END
SecureRate(success, total) ==
    IF total > 0 THEN ROUND(Times100(Rat(success, total)), 100) ELSE Int2Rat(0)

\* the aggregates of historical_metrics over the rows H of one hour
HistoricalAggregates(H) ==
    LET rates == Column(H, [m \in Range(H) |->
                               SecureRate(m.success_txns, m.total_txns)])
        amounts == Column(H, [m \in Range(H) |-> m.total_amount_cr])
    IN  [avg_success_rate    |-> AVG(rates),
         stddev_success_rate |-> STDDEV_SAMP_SQ(rates),
         avg_amount_cr       |-> AVG(amounts),
         stddev_amount_cr    |-> STDDEV_SAMP_SQ(amounts)]

\* historical_metrics with a window that runs up to today
secure_historical_metrics_upto_today(M, h, today) ==
    HistoricalAggregates(HistoryOf(M, h, today - 7, today))

\* historical_metrics for one hour: the rows of the 7 days before today
secure_historical_metrics(M, h, today) ==
    HistoricalAggregates(HistoryOf(M, h, today - 7, today - 1))

\* CASE WHEN c < avg - 2 * stddev THEN 'low' WHEN c > avg + 2 * stddev
\* THEN 'high' ELSE 'normal' END
SecureFlag(c, avg, var) ==
    IF BelowBandSq(c, avg, 4, var) THEN "low"
    ELSE IF AboveBandSq(c, avg, 4, var) THEN "high"
    ELSE "normal"

\* the columns of the final SELECT: success_rates s LEFT JOIN
\* historical_metrics h
SecureTxSelect(s, h) ==
    LET rate == SecureRate(s.success_txns, s.total_txns)
    IN  [hour |-> s.hour,
         overall_success_rate |-> rate,
         total_amount_cr   |-> s.total_amount_cr,
         total_txns        |-> Int2Rat(s.total_txns),
         success_txns      |-> Int2Rat(s.success_txns),
         ybl_success_rate  |-> SecureRate(s.ybl_success, s.ybl_total),
         nsdl_success_rate |-> SecureRate(s.nsdl_success, s.nsdl_total),
         ybln_success_rate |-> SecureRate(s.ybln_success, s.ybln_total),
         avg_success_rate    |-> h.avg_success_rate,
         stddev_success_rate |-> h.stddev_success_rate,
         avg_amount_cr       |-> h.avg_amount_cr,
         stddev_amount_cr    |-> h.stddev_amount_cr,
         success_rate_anomaly |->
             SecureFlag(rate, h.avg_success_rate, h.stddev_success_rate),
         amount_cr_anomaly |->
             SecureFlag(s.total_amount_cr, h.avg_amount_cr, h.stddev_amount_cr)]

\* the row of the final SELECT for the row s of success_rates
SecureTxRow(M, s, today) ==
    SecureTxSelect(s, secure_historical_metrics(M, s.hour, today))

\* the whole query: one row per hour of today, ORDER BY s.hour
secure_transaction_success(E, today) ==
    LET M == tx_hourly_metrics(E, today)
        hours == Ascending({m.hour : m \in {x \in M : x.date = today}})
    IN  [i \in 1..Len(hours) |->
            SecureTxRow(M, CHOOSE m \in M : m.date = today /\ m.hour = hours[i],
                        today)]

-----------------------------------------------------------------------------
(* "transaction_success" of aeps_health_dashboard.py *)

\* ROUND(SAFE_DIVIDE(success, total) * 100, 2)
PlainRate(success, total) == ROUND(Times100(SAFE_DIVIDE(success, total)), 100)

\* the aggregates of median_sd_data over the rows H of one hour
MedianSdAggregates(H, rank) ==
    LET Pct(a, b) == Times100(SAFE_DIVIDE(a, b))
        amounts == Column(H, [m \in Range(H) |-> m.total_amount_cr])
        succ  == Column(H, [m \in Range(H) |-> Int2Rat(m.success_txns)])
        rates == Column(H, [m \in Range(H) |-> Pct(m.success_txns, m.total_txns)])
        ybl   == Column(H, [m \in Range(H) |-> Pct(m.ybl_success, m.ybl_total)])
        nsdl  == Column(H, [m \in Range(H) |-> Pct(m.nsdl_success, m.nsdl_total)])
        ybln  == Column(H, [m \in Range(H) |-> Pct(m.ybln_success, m.ybln_total)])
    IN  [present |-> Len(H) > 0,
         median_amount_cr    |-> ROUND(APPROX_MEDIAN(amounts, rank), 100),
         stddev_amount_cr    |-> RoundedSqrt(STDDEV_POP_SQ(amounts)),
         median_success_txns |-> ROUND(APPROX_MEDIAN(succ, rank), 1),
         stddev_success_txns |-> RoundedSqrt(STDDEV_POP_SQ(succ)),
         median_success_rate |-> ROUND(APPROX_MEDIAN(rates, rank), 100),
         stddev_success_rate |-> RoundedSqrt(STDDEV_POP_SQ(rates)),
         median_ybl_success_rate  |-> ROUND(APPROX_MEDIAN(ybl, rank), 100),
         stddev_ybl_success_rate  |-> RoundedSqrt(STDDEV_POP_SQ(ybl)),
         median_nsdl_success_rate |-> ROUND(APPROX_MEDIAN(nsdl, rank), 100),
         stddev_nsdl_success_rate |-> RoundedSqrt(STDDEV_POP_SQ(nsdl)),
         median_ybln_success_rate |-> ROUND(APPROX_MEDIAN(ybln, rank), 100),
         stddev_ybln_success_rate |-> RoundedSqrt(STDDEV_POP_SQ(ybln))]

\* median_sd_data for one hour: the rows of the 7 days before today
median_sd_data(M, h, today, rank) ==
    MedianSdAggregates(HistoryOf(M, h, today - 7, today - 1), rank)

\* c < m - s and c > m + s as SQL conditions: not TRUE when a cell is NULL
BelowBand(c, m, sd) == c.def /\ m.def /\ sd.def /\ RatLess(c, RatSub(m, sd))

AboveBand(c, m, sd) == c.def /\ m.def /\ sd.def /\ RatLess(RatAdd(m, sd), c)

\* CASE WHEN c < median - stddev THEN 'lower anomaly' WHEN c > median + stddev
\* THEN 'upper anomaly' ELSE 'normal' END (the labels without their arrows)
PlainFlag(c, m, sd) ==
    IF BelowBand(c, m, sd) THEN "lower anomaly"
    ELSE IF AboveBand(c, m, sd) THEN "upper anomaly"
    ELSE "normal"

\* the columns of the final SELECT: median_sd_data m FULL OUTER JOIN
\* yesterday_data y, y being there when has_y
PlainTxSelect(h, has_y, y, m) ==
    LET rate == IF has_y THEN PlainRate(y.success_txns, y.total_txns) ELSE NULL
    IN  [date |-> IF has_y THEN Int2Rat(y.date) ELSE NULL,
         hour |-> h,
         total_amount_cr |-> IF has_y THEN y.total_amount_cr ELSE NULL,
         success_txns |-> IF has_y THEN Int2Rat(y.success_txns) ELSE NULL,
         overall_success_rate |-> rate,
         ybl_success_rate |->
             IF has_y THEN PlainRate(y.ybl_success, y.ybl_total) ELSE NULL,
         nsdl_success_rate |->
             IF has_y THEN PlainRate(y.nsdl_success, y.nsdl_total) ELSE NULL,
         ybln_success_rate |->
             IF has_y THEN PlainRate(y.ybln_success, y.ybln_total) ELSE NULL,
         median_amount_cr         |-> m.median_amount_cr,
         median_success_txns      |-> m.median_success_txns,
         median_success_rate      |-> m.median_success_rate,
         median_ybl_success_rate  |-> m.median_ybl_success_rate,
         median_nsdl_success_rate |-> m.median_nsdl_success_rate,
         median_ybln_success_rate |-> m.median_ybln_success_rate,
         success_rate_anomaly |->
             PlainFlag(rate, m.median_success_rate, m.stddev_success_rate)]

\* the row of the final SELECT for hour h
PlainTxRow(M, h, today, rank) ==
    PlainTxSelect(h, \E x \in M : x.date = today /\ x.hour = h,
                  CHOOSE x \in M : x.date = today /\ x.hour = h,
                  median_sd_data(M, h, today, rank))

\* the whole query: one row per hour of today or of the history, ORDER BY hour
plain_transaction_success(E, today, rank) ==
    LET M == tx_hourly_metrics(E, today)
        hours == Ascending({m.hour : m \in M})
    IN  [i \in 1..Len(hours) |-> PlainTxRow(M, hours[i], today, rank)]

-----------------------------------------------------------------------------
(* Bio-auth stream: hourly_metrics, shared by both scripts *)

\* COUNT(DISTINCT CASE WHEN .. THEN client_id END) over the rows S of a bag:
\* NULL ids are not counted
CountDistinctClient(B, S) ==
    Cardinality({e.client_id : e \in S \cap DOMAIN B} \ {NullStr})

\* hourly_metrics whose NSDL success count leaves out the aggregator condition
BioHourlyRow_nsdl_unsliced(E, d, h) ==
    LET G == Where(E, {e \in DOMAIN E : e.date = d /\ e.hour = h})
        HasId(e) == e.client_id # NullStr
    IN  [date |-> d,
         hour |-> h,
         succ_att_ftr  |-> CountIf(G, {e \in DOMAIN G : e.RC = "00" /\ HasId(e)}),
         total_att_ftr |-> CountIf(G, {x \in DOMAIN G : HasId(x)}),
         succ_att_ftr_nsdl |-> CountDistinctClient(G, {e \in DOMAIN G : e.RC = "00"}),
         total_att_ftr_nsdl |->
             CountDistinctClient(G, {e \in DOMAIN G : e.AGGREGATOR = "NSDL"}),
         succ_att_ftr_ybl |->
             CountDistinctClient(G, {e \in DOMAIN G : e.AGGREGATOR \in {"YBL", "YBLN"}
                                               /\ e.RC = "00"}),
         total_att_ftr_ybl |->
             CountDistinctClient(G, {e \in DOMAIN G : e.AGGREGATOR \in {"YBL", "YBLN"}}),
         succ_att_tot_ftr |-> CountIf(G, {e \in DOMAIN G : e.RC = "00" /\ HasId(e)}),
         succ_att_sma_ftr |-> CountDistinctClient(G, {e \in DOMAIN G : e.RC = "00"})]

\* one row of hourly_metrics: GROUP BY date, hour
BioHourlyRow(E, d, h) ==
    LET G == Where(E, {e \in DOMAIN E : e.date = d /\ e.hour = h})
        HasId(e) == e.client_id # NullStr
    IN  [date |-> d,
         hour |-> h,
         succ_att_ftr  |-> CountIf(G, {e \in DOMAIN G : e.RC = "00" /\ HasId(e)}),
         total_att_ftr |-> CountIf(G, {x \in DOMAIN G : HasId(x)}),
         succ_att_ftr_nsdl |->
             CountDistinctClient(G, {e \in DOMAIN G : e.AGGREGATOR = "NSDL" /\ e.RC = "00"}),
         total_att_ftr_nsdl |->
             CountDistinctClient(G, {e \in DOMAIN G : e.AGGREGATOR = "NSDL"}),
         succ_att_ftr_ybl |->
             CountDistinctClient(G, {e \in DOMAIN G : e.AGGREGATOR \in {"YBL", "YBLN"}
                                               /\ e.RC = "00"}),
         total_att_ftr_ybl |->
             CountDistinctClient(G, {e \in DOMAIN G : e.AGGREGATOR \in {"YBL", "YBLN"}}),
         succ_att_tot_ftr |-> CountIf(G, {e \in DOMAIN G : e.RC = "00" /\ HasId(e)}),
         succ_att_sma_ftr |-> CountDistinctClient(G, {e \in DOMAIN G : e.RC = "00"})]

\* hourly_metrics over DATE(OP_TIME) BETWEEN today - back AND today
bio_hourly_metrics(E, today, back) ==
    LET W == Where(E, {e \in DOMAIN E : e.date >= today - back /\ e.date <= today})
    IN  {BioHourlyRow(W, k[1], k[2]) : k \in {<<e.date, e.hour>> : e \in DOMAIN W}}

\* yesterday_data: the rates of one current row
bio_yesterday_data(y) ==
    [hour |-> y.hour,
     date |-> y.date,
     total_attempts      |-> y.total_att_ftr,
     successful_attempts |-> y.succ_att_ftr,
     fa2_succ_rate |->
         ROUND(Times100(SAFE_DIVIDE(y.succ_att_ftr, y.total_att_ftr)), 100),
     fa2_succ_rate_nsdl |->
         ROUND(Times100(SAFE_DIVIDE(y.succ_att_ftr_nsdl, y.total_att_ftr_nsdl)), 100),
     fa2_succ_rate_ybl |->
         ROUND(Times100(SAFE_DIVIDE(y.succ_att_ftr_ybl, y.total_att_ftr_ybl)), 100),
     fa2_per_user_rate |->
         ROUND(SAFE_DIVIDE(y.succ_att_tot_ftr, y.succ_att_sma_ftr), 100)]

\* the aggregates of median_data over the rows H of one hour
BioMedianAggregates(H, rank) ==
    LET Pct(a, b) == Times100(SAFE_DIVIDE(a, b))
        rates == Column(H, [m \in Range(H) |-> Pct(m.succ_att_ftr, m.total_att_ftr)])
        nsdl  == Column(H, [m \in Range(H) |-> Pct(m.succ_att_ftr_nsdl, m.total_att_ftr_nsdl)])
        ybl   == Column(H, [m \in Range(H) |-> Pct(m.succ_att_ftr_ybl, m.total_att_ftr_ybl)])
        user  == Column(H, [m \in Range(H) |->
                               SAFE_DIVIDE(m.succ_att_tot_ftr, m.succ_att_sma_ftr)])
    IN  [median_fa2_succ_rate      |-> ROUND(APPROX_MEDIAN(rates, rank), 100),
         median_fa2_succ_rate_nsdl |-> ROUND(APPROX_MEDIAN(nsdl, rank), 100),
         median_fa2_succ_rate_ybl  |-> ROUND(APPROX_MEDIAN(ybl, rank), 100),
         median_fa2_per_user_rate  |-> ROUND(APPROX_MEDIAN(user, rank), 100),
         stddev_per_user_rate  |-> STDDEV_SAMP_SQ(user),
         stddev_succ_rate      |-> STDDEV_SAMP_SQ(rates),
         stddev_succ_rate_nsdl |-> STDDEV_SAMP_SQ(nsdl),
         stddev_succ_rate_ybl  |-> STDDEV_SAMP_SQ(ybl)]

\* median_data for one hour: the rows of the days today - back .. today - 1
bio_median_data(M, h, today, back, rank) ==
    BioMedianAggregates(HistoryOf(M, h, today - back, today - 1), rank)

\* fa2_succ_flag of aeps_health_dashboard_secure.py (labels without arrows)
SecureBioFlag(c, m, var) ==
    IF BelowBandSq(c, m, 2, var) THEN "Lower Anomaly"
    ELSE IF AboveBandSq(c, m, 2, var) THEN "Upper Anomaly"
    ELSE "normal"

\* fa2_succ_flag of aeps_health_dashboard.py (labels without arrows)
PlainBioFlag(c, m, var) ==
    IF BelowBandSq(c, m, 2, var) THEN "Lower Anomaly"
    ELSE IF AboveBandSq(c, m, 2, var) THEN "Upper Anomaly"
    ELSE IF ~c.def THEN "No Data"
    ELSE "Normal"

\* the columns of the final SELECT: median_data m FULL OUTER JOIN
\* yesterday_data y, y being there when has_y, with the flag and the columns
\* of the secure or of the plain script
BioSelect(h, has_y, y, m, secure) ==
    LET rate == IF has_y THEN y.fa2_succ_rate ELSE NULL
        row == [date |-> IF has_y THEN Int2Rat(y.date) ELSE NULL,
                hour |-> h,
                fa2_rate_yesterday        |-> rate,
                median_fa2_succ_rate      |-> m.median_fa2_succ_rate,
                nsdl_rate_yesterday       |-> IF has_y THEN y.fa2_succ_rate_nsdl ELSE NULL,
                median_fa2_succ_rate_nsdl |-> m.median_fa2_succ_rate_nsdl,
                ybl_rate_yesterday        |-> IF has_y THEN y.fa2_succ_rate_ybl ELSE NULL,
                median_fa2_succ_rate_ybl  |-> m.median_fa2_succ_rate_ybl,
                per_user_rate_yesterday   |-> IF has_y THEN y.fa2_per_user_rate ELSE NULL,
                median_fa2_per_user_rate  |-> m.median_fa2_per_user_rate,
                fa2_succ_flag |->
                    IF secure
                    THEN SecureBioFlag(rate, m.median_fa2_succ_rate, m.stddev_succ_rate)
                    ELSE PlainBioFlag(rate, m.median_fa2_succ_rate, m.stddev_succ_rate)]
        attempts == [total_attempts |->
                         IF has_y THEN Int2Rat(y.total_attempts) ELSE NULL,
                     successful_attempts |->
                         IF has_y THEN Int2Rat(y.successful_attempts) ELSE NULL]
    IN  IF secure THEN row @@ attempts ELSE row

\* the row of the final SELECT for hour h
BioRow(M, h, today, back, rank, secure) ==
    BioSelect(h, \E x \in M : x.date = today /\ x.hour = h,
              bio_yesterday_data(CHOOSE x \in M : x.date = today /\ x.hour = h),
              bio_median_data(M, h, today, back, rank), secure)

\* "bio_authentication" of aeps_health_dashboard_secure.py
secure_bio_authentication(E, today, rank) ==
    LET M == bio_hourly_metrics(E, today, 7)
        hours == Ascending({m.hour : m \in M})
    IN  [i \in 1..Len(hours) |->
            BioRow(M, hours[i], today, 7, rank, TRUE)]

\* "bio_auth_success" of aeps_health_dashboard.py
plain_bio_auth_success(E, today, rank) ==
    LET M == bio_hourly_metrics(E, today, 8)
        hours == Ascending({m.hour : m \in M})
    IN  [i \in 1..Len(hours) |->
            BioRow(M, hours[i], today, 8, rank, FALSE)]

-----------------------------------------------------------------------------
(* Columns of the returned frames *)

SecureTxColumns ==
    {"hour", "overall_success_rate", "total_amount_cr", "total_txns",
     "success_txns", "ybl_success_rate", "nsdl_success_rate",
     "ybln_success_rate", "avg_success_rate", "stddev_success_rate",
     "avg_amount_cr", "stddev_amount_cr", "success_rate_anomaly",
     "amount_cr_anomaly"}

PlainTxColumns ==
    {"date", "hour", "total_amount_cr", "success_txns", "overall_success_rate",
     "ybl_success_rate", "nsdl_success_rate", "ybln_success_rate",
     "median_amount_cr", "median_success_txns", "median_success_rate",
     "median_ybl_success_rate", "median_nsdl_success_rate",
     "median_ybln_success_rate", "success_rate_anomaly"}

PlainBioColumns ==
    {"date", "hour", "fa2_rate_yesterday", "median_fa2_succ_rate",
     "nsdl_rate_yesterday", "median_fa2_succ_rate_nsdl", "ybl_rate_yesterday",
     "median_fa2_succ_rate_ybl", "per_user_rate_yesterday",
     "median_fa2_per_user_rate", "fa2_succ_flag"}

SecureBioColumns == PlainBioColumns \cup {"total_attempts", "successful_attempts"}

-----------------------------------------------------------------------------
(* Health score: the same lines in both scripts *)

\* Python max(0, x): x only when x > 0 is true, so 0 for NaN
PyMax0(x) == IF x.def /\ RatLess(Int2Rat(0), x) THEN x ELSE Int2Rat(0)

\* Python min(100, y): y only when y < 100 is true
PyMin100(y) == IF y.def /\ RatLess(y, Int2Rat(100)) THEN y ELSE Int2Rat(100)

\* Series.mean() of the column col: the mean of the non-NaN cells, NaN when
\* there is none
Mean(df, col) == AVG(Column(df.rows, col))

\* transaction_health_score
transaction_health_score(df) ==
    IF ~Empty(df)
    THEN PyMin100(PyMax0(
             Mean(df, [r \in Range(df.rows) |-> r.overall_success_rate])))
    ELSE Int2Rat(0)

\* bio_health_score as min(max(avg, 0), 100), which keeps a NaN mean
bio_health_score_nan_first(df) ==
    LET avg == Mean(df, [r \in Range(df.rows) |-> r.fa2_rate_yesterday])
    IN  IF Empty(df) THEN Int2Rat(0)
        ELSE IF ~avg.def THEN NULL
        ELSE PyMin100(PyMax0(avg))

\* bio_health_score
bio_health_score(df) ==
    IF ~Empty(df)
    THEN PyMin100(PyMax0(
             Mean(df, [r \in Range(df.rows) |-> r.fa2_rate_yesterday])))
    ELSE Int2Rat(0)

\* the two weights the other way round
overall_health_score_swapped(t, b) ==
    IF t.def /\ b.def
    THEN RatAdd(RatMul(t, Rat(3, 10)), RatMul(b, Rat(7, 10)))
    ELSE NULL

\* transaction_health_score * 0.7 + bio_health_score * 0.3; NaN propagates
overall_health_score(t, b) ==
    IF t.def /\ b.def
    THEN RatAdd(RatMul(t, Rat(7, 10)), RatMul(b, Rat(3, 10)))
    ELSE NULL

\* the delta with the two conditions in the other order
overall_delta_watch_first(score) ==
    IF score.def /\ ~RatLess(score, Int2Rat(75)) THEN "yellow"
    ELSE IF score.def /\ ~RatLess(score, Int2Rat(90)) THEN "green"
    ELSE "red"

\* delta of the "Overall Health Score" metric: green circle if
\* overall_health_score >= 90 else yellow circle if overall_health_score >= 75
\* else red circle
overall_delta(score) ==
    IF score.def /\ ~RatLess(score, Int2Rat(90)) THEN "green"
    ELSE IF score.def /\ ~RatLess(score, Int2Rat(75)) THEN "yellow"
    ELSE "red"

NoHealth ==
    [transaction_health_score |-> NULL,
     bio_health_score         |-> NULL,
     overall_health_score     |-> NULL,
     overall_delta            |-> "none"]

HealthScores(tdf, bdf) ==
    LET t == transaction_health_score(tdf)
        b == bio_health_score(bdf)
    IN  [transaction_health_score |-> t,
         bio_health_score         |-> b,
         overall_health_score     |-> overall_health_score(t, b),
         overall_delta            |-> overall_delta(overall_health_score(t, b))]

-----------------------------------------------------------------------------
(* Health Overview page of aeps_health_dashboard_secure.py *)

\* the default of the "Hour Range (0-23)" slider
hour_range == <<0, 23>>

\* df[(hr >= hour_range[0]) & (hr <= hour_range[1])] on a copy
HourFiltered(df) ==
    Frame(df.columns,
          SelectSeq(df.rows, LAMBDA r : r.hour >= hour_range[1] /\ r.hour <= hour_range[2]))

\* the local flag with <= and >= for < and >
amount_cr_anomaly_local_nonstrict(r, kh) ==
    LET c == r.total_amount_cr
        m == r.avg_amount_cr
        var == r.stddev_amount_cr
        OnOrPast(dev) ==
            /\ dev.n >= 0
            /\ BigLessEq(BigProd(<<kh, kh, var.n, dev.d, dev.d>>),
                         BigProd(<<4, dev.n, dev.n, var.d>>))
    IN  IF c.def /\ m.def /\ var.def /\ OnOrPast(RatSub(m, c)) THEN "low"
        ELSE IF c.def /\ m.def /\ var.def /\ OnOrPast(RatSub(c, m)) THEN "high"
        ELSE "normal"

\* the local flag with the slider read from its other end (4 - k for k)
amount_cr_anomaly_local_reversed_k(r, kh) ==
    IF BelowBandSq(r.total_amount_cr, r.avg_amount_cr, 8 - kh, r.stddev_amount_cr)
    THEN "low"
    ELSE IF AboveBandSq(r.total_amount_cr, r.avg_amount_cr, 8 - kh, r.stddev_amount_cr)
    THEN "high"
    ELSE "normal"

\* np.where(c < avg - k * sd, 'low', np.where(c > avg + k * sd, 'high', 'normal'))
\* with k in halves; a comparison with NaN is False
amount_cr_anomaly_local(r, kh) ==
    IF BelowBandSq(r.total_amount_cr, r.avg_amount_cr, kh, r.stddev_amount_cr)
    THEN "low"
    ELSE IF AboveBandSq(r.total_amount_cr, r.avg_amount_cr, kh, r.stddev_amount_cr)
    THEN "high"
    ELSE "normal"

\* tx2 after the GTV section: the local flags when the three columns exist
GtvSection(df, kh) ==
    LET f == HourFiltered(df)
    IN  IF {"avg_amount_cr", "stddev_amount_cr", "total_amount_cr"} \subseteq f.columns
        THEN Frame(f.columns \cup {"amount_cr_anomaly_local"},
                   [i \in 1..Len(f.rows) |->
                       f.rows[i] @@ [amount_cr_anomaly_local |->
                                        amount_cr_anomaly_local(f.rows[i], kh)]])
        ELSE f

\* the rows listed under "GTV Anomalies"
gtv_anomalies(df, t2) ==
    IF "amount_cr_anomaly_local" \in t2.columns
    THEN SelectSeq(t2.rows, LAMBDA r : r.amount_cr_anomaly_local # "normal")
    ELSE IF "amount_cr_anomaly" \in df.columns
    THEN SelectSeq(df.rows, LAMBDA r : r.amount_cr_anomaly # "normal")
    ELSE << >>

\* transaction_data['failed_txns'] = total_txns - success_txns, in place
WithFailedTxns(df) ==
    IF ~Empty(df) /\ {"success_txns", "total_txns"} \subseteq df.columns
    THEN Frame(df.columns \cup {"failed_txns"},
               [i \in 1..Len(df.rows) |->
                   df.rows[i] @@ [failed_txns |->
                       RatSub(df.rows[i].total_txns, df.rows[i].success_txns)]])
    ELSE df

-----------------------------------------------------------------------------
(* "state_metrics" of aeps_health_dashboard_secure.py *)

\* dates are day numbers of a common year whose 1 January is a Wednesday
MonthLengths == <<31, 28, 31, 30, 31, 30, 31, 31, 30, 31, 30, 31>>

\* EXTRACT(DAY FROM date)
RECURSIVE DayInMonth(_, _)
DayInMonth(d, m) ==
    IF d <= MonthLengths[m] THEN d ELSE DayInMonth(d - MonthLengths[m], m + 1)

EXTRACT_DAY(d) == DayInMonth(((d - 1) % 365) + 1, 1)

\* EXTRACT(DAYOFWEEK FROM date): 1 is Sunday
EXTRACT_DAYOFWEEK(d) == ((d + 2) % 7) + 1

\* the three aggregates every sub-query of state_metrics takes of a group G
StateAggregates(G) ==
    LET Paid(e) == e.trans_amt > 0
        Good(e) == e.spice_message = "SUCCESS" /\ e.trans_amt > 0
        S == Where(G, {x \in DOMAIN G : Good(x)})
    IN  [gtv |-> IF DOMAIN S = {} THEN NULL
                 ELSE Rat(SumFn([e \in DOMAIN S |-> S[e] * e.trans_amt]), 10000000),
         transactions |-> CountIf(G, {x \in DOMAIN G : Paid(x)}),
         success_rate |->
             Times100(SAFE_DIVIDE(CountIf(G, {x \in DOMAIN G : Good(x)}),
                                  CountIf(G, {x \in DOMAIN G : Paid(x)})))]

\* the rows within DATE_SUB(CURRENT_DATE(), INTERVAL 90 DAY) and
\* DATE_SUB(CURRENT_DATE(), INTERVAL 2 DAY), final_state IS NOT NULL
StateHistory(E, cur) ==
    Where(E, {e \in DOMAIN E : e.date >= cur - 90 /\ e.date <= cur - 2
                        /\ e.final_state # NullStr})

\* historical_90d of one state: one row per date, in date order
historical_90d(E, st, cur) ==
    LET H  == StateHistory(E, cur)
        W  == Where(H, {e \in DOMAIN H : e.final_state = st})
        ds == Ascending({e.date : e \in DOMAIN W})
    IN  [i \in 1..Len(ds) |->
            StateAggregates(Where(W, {e \in DOMAIN W : e.date = ds[i]}))]

\* the aggregates of historical_stats over the daily rows H of one state
HistoricalStatsAggregates(H, rank) ==
    LET gtv == Column(H, [r \in Range(H) |-> r.gtv])
        rate == Column(H, [r \in Range(H) |-> r.success_rate])
    IN  [median_90d_gtv          |-> APPROX_MEDIAN(gtv, rank),
         median_90d_success_rate |-> APPROX_MEDIAN(rate, rank),
         stddev_90d_gtv          |-> STDDEV_SAMP_SQ(gtv),
         stddev_90d_success_rate |-> STDDEV_SAMP_SQ(rate)]

\* historical_stats of one state
historical_stats(E, st, cur, rank) ==
    HistoricalStatsAggregates(historical_90d(E, st, cur), rank)

\* the medians of weekday_median / day_of_month_median over the rows of the
\* slot of yesterday
SlotMedianAggregates(rows, rank) ==
    [median_gtv |->
         APPROX_MEDIAN(Column(rows, [r \in Range(rows) |-> r.gtv]), rank),
     median_success_rate |->
         APPROX_MEDIAN(Column(rows, [r \in Range(rows) |-> r.success_rate]), rank)]

\* weekday_median / day_of_month_median of one state, slot giving the weekday
\* or the day of month of each date: weekday_data and
\* day_of_month_data hold one row per (state, weekday) and (state, day of
\* month), aggregated over every matching date of the window
SlotMedian(E, st, cur, rank, slot) ==
    LET H == StateHistory(E, cur)
        W == Where(H, {e \in DOMAIN H : /\ e.final_state = st
                                        /\ slot[e.date] = slot[cur - 1]})
    IN  SlotMedianAggregates(
            IF DOMAIN W = {} THEN << >> ELSE <<StateAggregates(W)>>, rank)

\* the columns of the final SELECT: yesterday_data y LEFT JOIN the three
\* baselines h, w, d
StateSelect(st, y, h, w, d) ==
        [final_state             |-> st,
         yesterday_gtv           |-> y.gtv,
         yesterday_transactions  |-> Int2Rat(y.transactions),
         yesterday_success_rate  |-> y.success_rate,
         median_90d_gtv          |-> h.median_90d_gtv,
         median_90d_success_rate |-> h.median_90d_success_rate,
         stddev_90d_gtv          |-> h.stddev_90d_gtv,
         stddev_90d_success_rate |-> h.stddev_90d_success_rate,
         same_weekday_median_gtv            |-> w.median_gtv,
         same_weekday_median_success_rate   |-> w.median_success_rate,
         same_day_month_median_gtv          |-> d.median_gtv,
         same_day_month_median_success_rate |-> d.median_success_rate,
         gtv_vs_median_ratio |-> SafeDivideCells(y.gtv, h.median_90d_gtv),
         success_vs_median_ratio |->
             SafeDivideCells(y.success_rate, h.median_90d_success_rate)]

\* the row of the final SELECT for state st
StateRow(E, st, cur, rank) ==
    StateSelect(st,
        StateAggregates(Where(E, {e \in DOMAIN E : /\ e.date = cur - 1
                                                    /\ e.final_state = st})),
        historical_stats(E, st, cur, rank),
        SlotMedian(E, st, cur, rank, [x \in 0..cur |-> EXTRACT_DAYOFWEEK(x)]),
        SlotMedian(E, st, cur, rank, [x \in 0..cur |-> EXTRACT_DAY(x)]))

StateColumns ==
    {"final_state", "yesterday_gtv", "yesterday_transactions",
     "yesterday_success_rate", "median_90d_gtv", "median_90d_success_rate",
     "stddev_90d_gtv", "stddev_90d_success_rate", "same_weekday_median_gtv",
     "same_weekday_median_success_rate", "same_day_month_median_gtv",
     "same_day_month_median_success_rate", "gtv_vs_median_ratio",
     "success_vs_median_ratio"}

\* ascending order of nullable keys, NULL last
KeyLess(x, y) == x.def /\ (~y.def \/ RatLess(x, y))

\* every sequence that lists the keyed rows of S in ascending key order:
\* rows with equal keys come in any order
RECURSIVE AscendingOrders(_)
AscendingOrders(S) ==
    IF S = {} THEN {<< >>}
    ELSE UNION {{<<m.row>> \o t : t \in AscendingOrders(S \ {m})} :
                 m \in {x \in S : \A y \in S : ~KeyLess(y.key, x.key)}}

\* -x, NULL stays NULL
NegCell(x) == IF x.def THEN RatNeg(x) ELSE NULL

\* the rows of the query: states with a row yesterday, ORDER BY yesterday_gtv DESC
state_metrics(E, cur, rank) ==
    LET sts == {e.final_state : e \in {x \in DOMAIN E : x.date = cur - 1
                                                         /\ x.final_state # NullStr}}
        rows == {StateRow(E, st, cur, rank) : st \in sts}
    IN  AscendingOrders({[key |-> NegCell(r.yesterday_gtv), row |-> r] : r \in rows})

-----------------------------------------------------------------------------
(* State-wise Metrics page: top movers *)

HeadRows(n, s) == SubSeq(s, 1, Min2(n, Len(s)))

\* the filter without its volume floor
high_volume_states_any_volume(df) ==
    SelectSeq(df.rows, LAMBDA r : r.yesterday_gtv.def)

\* state_data[state_data['yesterday_gtv'] > 1.0]
high_volume_states(df) ==
    SelectSeq(df.rows, LAMBDA r : r.yesterday_gtv.def
                                  /\ RatLess(Int2Rat(1), r.yesterday_gtv))

\* the gainers sorted with ascending=True
gainers_ascending(high) ==
    LET sel == {r \in Range(high) : r.gtv_vs_median_ratio.def
                                     /\ RatLess(Rat(11, 10), r.gtv_vs_median_ratio)}
    IN  {HeadRows(5, o) : o \in AscendingOrders(
            {[key |-> r.gtv_vs_median_ratio, row |-> r] : r \in sel})}

\* high[ratio > 1.1].sort_values(ratio, ascending=False).head(5)
gainers(high) ==
    LET sel == {r \in Range(high) : r.gtv_vs_median_ratio.def
                                     /\ RatLess(Rat(11, 10), r.gtv_vs_median_ratio)}
    IN  {HeadRows(5, o) : o \in AscendingOrders(
            {[key |-> RatNeg(r.gtv_vs_median_ratio), row |-> r] : r \in sel})}

\* high[ratio < 0.9].sort_values(ratio).head(5)
losers(high) ==
    LET sel == {r \in Range(high) : r.gtv_vs_median_ratio.def
                                     /\ RatLess(r.gtv_vs_median_ratio, Rat(9, 10))}
    IN  {HeadRows(5, o) : o \in AscendingOrders(
            {[key |-> r.gtv_vs_median_ratio, row |-> r] : r \in sel})}

NoMovers == [gainers |-> << >>, losers |-> << >>]

\* the outcomes of the two tables for the high-volume rows
MoversOf(high) ==
    IF high = << >>
    THEN {NoMovers}
    ELSE {[gainers |-> g, losers |-> l] : g \in gainers(high), l \in losers(high)}

\* the outcomes of the "Top Movers" section for a returned frame
TopMovers(df) ==
    IF df.is_none \/ Empty(df) THEN {NoMovers} ELSE MoversOf(high_volume_states(df))

\* the State-wise Metrics page for the frame state_metrics returned
StateMetricsPage(df) ==
    /\ state_data' = df
    /\ movers' \in TopMovers(df)

-----------------------------------------------------------------------------
(* get_bigquery_data: the cache, the early returns and the except branch *)

\* the query_names of the two query tables the model evaluates
queries ==
    {"secure.transaction_success", "secure.bio_authentication",
     "secure.state_metrics", "plain.transaction_success",
     "plain.bio_auth_success"}

\* a query_name that is in no query table
UnknownQuery == "secure.no_such_query"

\* the cached calls: each script has its own cache, keyed by query_name (and
\* by selected_date, which a behaviour keeps)
CacheKeys == queries \cup {UnknownQuery}

\* @st.cache_data(ttl=300)
ttl == 300

NoEntry == [hit |-> FALSE, value |-> None, at |-> 0]

Entry(df) == [hit |-> TRUE, value |-> df, at |-> now]

EmptyCache == [q \in CacheKeys |-> NoEntry]

\* st.cache_data holds a value for q that only values with rows are kept of
Fresh_frames_only(q) ==
    cache[q].hit /\ now - cache[q].at < ttl /\ ~cache[q].value.is_none

\* st.cache_data holds a value for q that is younger than ttl seconds
Fresh(q) == cache[q].hit /\ now - cache[q].at < ttl

required_fields == {"project_id", "private_key", "client_email"}

\* [field for field in required_fields if not credentials_info.get(field)];
\* aeps_health_dashboard.py reads the same fields from spicemoney-dwh.json
\* and gets as far as the query only with all of them
missing_fields == required_fields \ credentials

\* the call gets as far as client.query(query)
query_executed(q) == ~Fresh(q) /\ missing_fields = {} /\ q \in queries

\* the values a call can return when the query can come back as any frame of
\* dfs: the cached value within the ttl; otherwise None without credentials
\* or for an unknown name, the frame of the query when the source answers it
\* and None when the call raises
get_bigquery_data_any(q, up, dfs) ==
    IF Fresh(q) THEN {cache[q].value}
    ELSE IF missing_fields # {} THEN {None}
    ELSE IF q \notin queries THEN {None}
    ELSE IF q \in up THEN dfs
    ELSE {None}

\* a call that hands an empty frame to the page when a check fails
get_bigquery_data_empty_frame(q, up, df) ==
    IF Fresh(q) THEN cache[q].value
    ELSE IF missing_fields # {} THEN Frame({}, << >>)
    ELSE IF q \notin queries THEN Frame({}, << >>)
    ELSE IF q \in up THEN df
    ELSE None

\* the value a call returns for a query with one result
get_bigquery_data(q, up, df) ==
    IF Fresh(q) THEN cache[q].value
    ELSE IF missing_fields # {} THEN None
    ELSE IF q \notin queries THEN None
    ELSE IF q \in up THEN df
    ELSE None

\* the entry of q after a call that returned v: the one it had within the
\* ttl, a new one otherwise
Stored(q, v) == IF Fresh(q) THEN cache[q] ELSE Entry(v)

\* what a call of q that returned v did: whether it ran the query and
\* whether the query raised
Call(q, up, v) ==
    [value    |-> v,
     executed |-> query_executed(q),
     raised   |-> query_executed(q) /\ q \notin up]

NoCalls == << >>

-----------------------------------------------------------------------------
(* Session: the login gate and the auto-refresh of the secure script *)

\* get_auth_password() with neither DASHBOARD_PASSWORD nor secrets set
correct_password == "spicemoney2024"

NewSession ==
    [authenticated     |-> FALSE,
     password          |-> "",
     last_refresh_ts   |-> 0,
     auto_refresh      |-> FALSE,
     refresh_every_min |-> 5]

\* the session gets past check_authentication() without a login form
check_authentication_open(s) == TRUE

\* the session gets past check_authentication()
check_authentication(s) == s.authenticated

\* the test of the auto-refresh with >= for >
auto_refresh_due_at_interval(s, now_ts) ==
    s.auto_refresh /\ now_ts - s.last_refresh_ts >= s.refresh_every_min * 60

\* if auto_refresh: ... if now_ts - last > refresh_every_min * 60
auto_refresh_due(s, now_ts) ==
    s.auto_refresh /\ now_ts - s.last_refresh_ts > s.refresh_every_min * 60

-----------------------------------------------------------------------------
(* Anomaly alerts *)

NoAlerts ==
    [transaction_anomalies |-> << >>, bio_anomalies |-> << >>]

\* "Active Anomalies" and "Anomaly Alerts" of aeps_health_dashboard.py
plain_alerts(tdf, bdf) ==
    LET ta == IF Empty(tdf) THEN << >>
              ELSE SelectSeq(tdf.rows, LAMBDA r : r.success_rate_anomaly # "normal")
        ba == IF Empty(bdf) THEN << >>
              ELSE SelectSeq(bdf.rows, LAMBDA r : r.fa2_succ_flag # "Normal")
    IN  [total_anomalies       |-> Len(ta) + Len(ba),
         transaction_anomalies |-> ta,
         bio_anomalies         |-> ba]

\* the alerts below the graphs of the Health Overview: the bio-auth ones are
\* the rows whose flag contains 'Anomaly'
secure_alerts(tx, bio) ==
    [transaction_anomalies |->
         IF Empty(tx) THEN << >>
         ELSE SelectSeq(tx.rows, LAMBDA r : r.success_rate_anomaly # "normal"),
     bio_anomalies |->
         IF Empty(bio) THEN << >>
         ELSE SelectSeq(bio.rows, LAMBDA r :
                  /\ r.fa2_succ_flag \notin {"Normal", "normal"}
                  /\ r.fa2_succ_flag \in {"Lower Anomaly", "Upper Anomaly"})]

-----------------------------------------------------------------------------
(* State machine *)

Kinds == Cardinality(DOMAIN txEvents) + Cardinality(DOMAIN bioEvents)
         + Cardinality(DOMAIN stateEvents)

\* the warehouse receives c rows of the transaction stream equal to e
IngestTx(e, c) ==
    /\ pc = "idle"
    /\ Kinds < MaxKinds
    /\ e \notin DOMAIN txEvents
    /\ txEvents' = txEvents (+) [x \in {e} |-> c]
    /\ UNCHANGED <<bioEvents, stateEvents, approx_rank, selected_date,
                   current_date, anomaly_k, script, transaction_data,
                   bio_auth_data, state_data, tx2, health, movers, cache, pc,
                   alerts, session, credentials, now, calls>>

\* the warehouse receives c rows of the bio-auth stream equal to e
IngestBio(e, c) ==
    /\ pc = "idle"
    /\ Kinds < MaxKinds
    /\ e \notin DOMAIN bioEvents
    /\ bioEvents' = bioEvents (+) [x \in {e} |-> c]
    /\ UNCHANGED <<txEvents, stateEvents, approx_rank, selected_date,
                   current_date, anomaly_k, script, transaction_data,
                   bio_auth_data, state_data, tx2, health, movers, cache, pc,
                   alerts, session, credentials, now, calls>>

\* one run of aeps_health_dashboard_secure.py on the Health Overview page,
\* with the sensitivity slider at k halves
HealthOverviewPage(tdf, bdf, k) ==
    /\ bio_auth_data' = bdf
    /\ health' = HealthScores(tdf, bdf)
    /\ tx2' = IF ~Empty(tdf) /\ "total_amount_cr" \in tdf.columns
              THEN GtvSection(tdf, k)
              ELSE None
    /\ transaction_data' = WithFailedTxns(tdf)
    /\ alerts' = secure_alerts(HourFiltered(tdf), HourFiltered(bdf))

\* page routing of the Health Overview: the page only when both frames are
\* there, nothing of it otherwise
HealthOverviewRouting(tdf, bdf, k) ==
    IF tdf.is_none \/ bdf.is_none
    THEN /\ transaction_data' = tdf
         /\ bio_auth_data' = bdf
         /\ health' = NoHealth
         /\ tx2' = None
         /\ alerts' = NoAlerts
         /\ pc' = "failed"
    ELSE /\ HealthOverviewPage(tdf, bdf, k)
         /\ pc' = "rendered"

\* "Load data" and the page, for the values the two calls returned
HealthOverviewLoad(tdf, bdf, k, up) ==
    /\ cache' = [cache EXCEPT
                    !["secure.transaction_success"] =
                        Stored("secure.transaction_success", tdf),
                    !["secure.bio_authentication"] =
                        Stored("secure.bio_authentication", bdf)]
    /\ calls' = [q \in {"secure.transaction_success", "secure.bio_authentication"} |->
                    Call(q, up, IF q = "secure.transaction_success" THEN tdf ELSE bdf)]
    /\ HealthOverviewRouting(tdf, bdf, k)

\* one run of aeps_health_dashboard_secure.py on the Health Overview page,
\* with the slider at k halves, while the source answers the queries of up:
\* the auto-refresh of the sidebar comes before "Load data"
HealthOverviewRun(k, up) ==
    /\ pc \in {"idle", "rerun"}
    /\ check_authentication(session)
    /\ anomaly_k' = k
    /\ script' = "secure"
    /\ IF auto_refresh_due(session, now)
       THEN /\ session' = [session EXCEPT !.last_refresh_ts = now]
            /\ pc' = "rerun"
            /\ calls' = NoCalls
            /\ UNCHANGED <<transaction_data, bio_auth_data, tx2, health, alerts,
                           cache>>
       ELSE /\ HealthOverviewLoad(
                   get_bigquery_data("secure.transaction_success", up,
                       Frame(SecureTxColumns,
                             secure_transaction_success(txEvents, selected_date))),
                   get_bigquery_data("secure.bio_authentication", up,
                       Frame(SecureBioColumns,
                             secure_bio_authentication(bioEvents, selected_date,
                                                       approx_rank))),
                   k, up)
            /\ UNCHANGED session
    /\ UNCHANGED <<txEvents, bioEvents, stateEvents, approx_rank, selected_date,
                   current_date, state_data, movers, credentials, now>>

\* the run while the source answers every query
SecureHealthOverview(k) == HealthOverviewRun(k, CacheKeys)

\* one run of aeps_health_dashboard.py
MainPage(tdf, bdf) ==
    /\ transaction_data' = tdf
    /\ bio_auth_data' = bdf
    /\ health' = HealthScores(tdf, bdf)
    /\ alerts' = plain_alerts(tdf, bdf)

\* the main content only when both frames are there, "Unable to load data"
\* otherwise
MainRouting(tdf, bdf) ==
    IF tdf.is_none \/ bdf.is_none
    THEN /\ transaction_data' = tdf
         /\ bio_auth_data' = bdf
         /\ health' = NoHealth
         /\ alerts' = NoAlerts
         /\ pc' = "failed"
    ELSE /\ MainPage(tdf, bdf)
         /\ pc' = "rendered"

\* "Load data" and the main content, for the values the two calls returned
MainLoad(tdf, bdf, up) ==
    /\ cache' = [cache EXCEPT
                    !["plain.transaction_success"] =
                        Stored("plain.transaction_success", tdf),
                    !["plain.bio_auth_success"] =
                        Stored("plain.bio_auth_success", bdf)]
    /\ calls' = [q \in {"plain.transaction_success", "plain.bio_auth_success"} |->
                    Call(q, up, IF q = "plain.transaction_success" THEN tdf ELSE bdf)]
    /\ MainRouting(tdf, bdf)

\* one run of aeps_health_dashboard.py while the source answers the queries
\* of up
PlainRun(up) ==
    /\ pc = "idle"
    /\ MainLoad(
           get_bigquery_data("plain.transaction_success", up,
               Frame(PlainTxColumns,
                     plain_transaction_success(txEvents, selected_date, approx_rank))),
           get_bigquery_data("plain.bio_auth_success", up,
               Frame(PlainBioColumns,
                     plain_bio_auth_success(bioEvents, selected_date, approx_rank))),
           up)
    /\ script' = "plain"
    /\ UNCHANGED <<txEvents, bioEvents, stateEvents, approx_rank, selected_date,
                   current_date, anomaly_k, state_data, tx2, movers, session,
                   credentials, now>>

\* the run while the source answers every query
PlainDashboard == PlainRun(CacheKeys)

\* the warehouse receives the rows P of a state it has no rows of yet
IngestState(st, P) ==
    /\ pc = "idle"
    /\ \A e \in DOMAIN stateEvents : e.final_state # st
    /\ \A e \in DOMAIN P : e.final_state = st
    /\ stateEvents' = stateEvents (+) P
    /\ UNCHANGED <<txEvents, bioEvents, approx_rank, selected_date,
                   current_date, anomaly_k, script, transaction_data,
                   bio_auth_data, state_data, tx2, health, movers, cache, pc,
                   alerts, session, credentials, now, calls>>

\* "Load data" and the State-wise Metrics page, for the values the calls
\* returned; sdfs holds the frames the state query can come back as
StateMetricsLoad(tdf, bdf, sdfs, up) ==
    \E sdf \in sdfs :
        /\ cache' = [cache EXCEPT
                        !["secure.transaction_success"] =
                            Stored("secure.transaction_success", tdf),
                        !["secure.bio_authentication"] =
                            Stored("secure.bio_authentication", bdf),
                        !["secure.state_metrics"] =
                            Stored("secure.state_metrics", sdf)]
        /\ calls' = [q \in {"secure.transaction_success",
                            "secure.bio_authentication", "secure.state_metrics"} |->
                        Call(q, up, IF q = "secure.transaction_success" THEN tdf
                                    ELSE IF q = "secure.bio_authentication" THEN bdf
                                    ELSE sdf)]
        /\ transaction_data' = tdf
        /\ bio_auth_data' = bdf
        /\ StateMetricsPage(sdf)
        /\ pc' = IF sdf.is_none THEN "failed" ELSE "rendered"

\* one run of aeps_health_dashboard_secure.py on the State-wise Metrics page
\* while the source answers the queries of up
StateMetricsRun(up) ==
    /\ pc = "idle"
    /\ check_authentication(session)
    /\ StateMetricsLoad(
           get_bigquery_data("secure.transaction_success", up,
               Frame(SecureTxColumns,
                     secure_transaction_success(txEvents, selected_date))),
           get_bigquery_data("secure.bio_authentication", up,
               Frame(SecureBioColumns,
                     secure_bio_authentication(bioEvents, selected_date, approx_rank))),
           get_bigquery_data_any("secure.state_metrics", up,
               {Frame(StateColumns, rows) :
                   rows \in state_metrics(stateEvents, current_date, approx_rank)}),
           up)
    /\ script' = "secure"
    /\ UNCHANGED <<txEvents, bioEvents, stateEvents, approx_rank, selected_date,
                   current_date, anomaly_k, tx2, health, alerts, session,
                   credentials, now>>

\* the run while the source answers every query
SecureStateMetrics == StateMetricsRun(CacheKeys)

\* one call get_bigquery_data(query_name, selected_date) of the secure script
\* with a query_name of no query table
FetchUnknown(up) ==
    /\ pc = "idle"
    /\ check_authentication(session)
    /\ LET v == get_bigquery_data(UnknownQuery, up, Frame({}, << >>))
       IN  /\ cache' = [cache EXCEPT ![UnknownQuery] = Stored(UnknownQuery, v)]
           /\ calls' = [q \in {UnknownQuery} |-> Call(q, up, v)]
    /\ UNCHANGED <<txEvents, bioEvents, stateEvents, approx_rank, selected_date,
                   current_date, anomaly_k, script, transaction_data,
                   bio_auth_data, state_data, tx2, health, movers, pc, alerts,
                   session, credentials, now>>

\* a run of aeps_health_dashboard_secure.py by a session that is not
\* authenticated: the login form and st.stop()
LoginGate ==
    /\ pc \in {"idle", "rerun"}
    /\ ~check_authentication(session)
    /\ pc' = "login"
    /\ calls' = NoCalls
    /\ transaction_data' = None
    /\ bio_auth_data' = None
    /\ state_data' = None
    /\ tx2' = None
    /\ health' = NoHealth
    /\ movers' = NoMovers
    /\ alerts' = NoAlerts
    /\ UNCHANGED <<txEvents, bioEvents, stateEvents, approx_rank, selected_date,
                   current_date, anomaly_k, script, cache, session, credentials,
                   now>>

\* the Login button with password in the text input: the run it starts sets
\* authenticated and reruns, or shows the error and stops
Login(password) ==
    /\ pc \in {"login", "denied"}
    /\ ~check_authentication(session)
    /\ IF password = correct_password
       THEN /\ session' = [session EXCEPT !.authenticated = TRUE,
                                          !.password = password]
            /\ pc' = "idle"
       ELSE /\ session' = [session EXCEPT !.password = password]
            /\ pc' = "denied"
    /\ UNCHANGED <<txEvents, bioEvents, stateEvents, approx_rank, selected_date,
                   current_date, anomaly_k, script, transaction_data,
                   bio_auth_data, state_data, tx2, health, movers, cache, alerts,
                   credentials, now, calls>>

\* the Logout button of the sidebar
Logout ==
    /\ pc \in {"rendered", "failed"}
    /\ script = "secure"
    /\ session' = [session EXCEPT !.authenticated = FALSE]
    /\ pc' = "idle"
    /\ UNCHANGED <<txEvents, bioEvents, stateEvents, approx_rank, selected_date,
                   current_date, anomaly_k, script, transaction_data,
                   bio_auth_data, state_data, tx2, health, movers, cache, alerts,
                   credentials, now, calls>>

\* the "Auto-refresh" checkbox and the "Refresh every (minutes)" input of the
\* Health Overview
SetAutoRefresh(on, minutes) ==
    /\ pc \in {"rendered", "failed"}
    /\ script = "secure"
    /\ <<on, minutes>> # <<session.auto_refresh, session.refresh_every_min>>
    /\ session' = [session EXCEPT !.auto_refresh = on,
                                  !.refresh_every_min = minutes]
    /\ pc' = "idle"
    /\ UNCHANGED <<txEvents, bioEvents, stateEvents, approx_rank, selected_date,
                   current_date, anomaly_k, script, transaction_data,
                   bio_auth_data, state_data, tx2, health, movers, cache, alerts,
                   credentials, now, calls>>

\* st.rerun() of the "Refresh Data" button, or any interaction with a
\* widget: the script runs again
Rerun ==
    /\ pc \in {"rendered", "failed", "login", "denied"}
    /\ pc' = "idle"
    /\ UNCHANGED <<txEvents, bioEvents, stateEvents, approx_rank, selected_date,
                   current_date, anomaly_k, script, transaction_data,
                   bio_auth_data, state_data, tx2, health, movers, cache, alerts,
                   session, credentials, now, calls>>

\* the minutes of a session the model follows
MaxMinutes == 10

\* the first second of the sessions of the model
SessionStart == 1700000000

\* d seconds pass while a page is on the screen
Tick(d) ==
    /\ pc \in {"rendered", "failed", "login", "denied"}
    /\ now + d <= SessionStart + MaxMinutes * 60
    /\ now' = now + d
    /\ UNCHANGED <<txEvents, bioEvents, stateEvents, approx_rank, selected_date,
                   current_date, anomaly_k, script, transaction_data,
                   bio_auth_data, state_data, tx2, health, movers, cache, pc,
                   alerts, session, credentials, calls>>

\* the last day the model lets the warehouse clock reach
LastDay == 101

\* CURRENT_DATE() moves on to the next day
Midnight ==
    /\ current_date < LastDay
    /\ current_date' = current_date + 1
    /\ UNCHANGED <<txEvents, bioEvents, stateEvents, approx_rank, selected_date,
                   anomaly_k, script, transaction_data, bio_auth_data,
                   state_data, tx2, health, movers, cache, pc, alerts,
                   session, credentials, now, calls>>

\* the dates the dashboards are opened on in the model
SelectedDates == {9, 10}

\* the state of a deployment with the credentials c in which the session is s
\* and no script has run
Start(s, c) ==
    /\ txEvents = EmptyBag
    /\ bioEvents = EmptyBag
    /\ stateEvents = EmptyBag
    /\ approx_rank \in {"lower", "upper"}
    /\ selected_date \in SelectedDates
    /\ current_date = 100
    /\ anomaly_k = 4
    /\ script = "none"
    /\ transaction_data = None
    /\ bio_auth_data = None
    /\ state_data = None
    /\ tx2 = None
    /\ health = NoHealth
    /\ movers = NoMovers
    /\ cache = EmptyCache
    /\ pc = "idle"
    /\ alerts = NoAlerts
    /\ session = s
    /\ credentials = c
    /\ now = SessionStart
    /\ calls = NoCalls

\* a new session of a deployment with all credentials
Init == Start(NewSession, required_fields)

\* the session once the visitor has logged in: the state after LoginGate and
\* Login(correct_password)
LoggedIn ==
    [NewSession EXCEPT !.authenticated = TRUE, !.password = correct_password]

SignedIn == Start(LoggedIn, required_fields)

\* the positions of the "Anomaly sensitivity" slider, in halves: 1.0 .. 3.0
SliderPositions == 2..6

-----------------------------------------------------------------------------
(* Hourly baselines of the transaction stream: rows on three days *)

TxBaselineKinds ==
    [date : {2, 8, 9}, hour : {10, 11}, spice_message : {"SUCCESS", "FAILED"},
     aggregator : {"YBL"}, amount : {10000000}]

Next ==
    \/ \E e \in TxBaselineKinds, c \in {1, 2} : IngestTx(e, c)
    \/ \E k \in SliderPositions : SecureHealthOverview(k)
    \/ PlainDashboard

Spec == SignedIn /\ [][Next]_vars

-----------------------------------------------------------------------------
(* Aggregation of one bucket of each stream: rows of one hour of one day *)

TxBucketKinds ==
    [date : {9}, hour : {10}, spice_message : {"Success", "FAILED"},
     aggregator : {"YBL", "NSDL", "FINO", NullStr}, amount : {50, 100, 200}]

BioBucketKinds ==
    [date : {9}, hour : {10}, client_id : {"c1", "c2", NullStr},
     AGGREGATOR : {"NSDL", "YBLN"}, RC : {"00", "01"}]

NextStreams ==
    \/ \E e \in TxBucketKinds : IngestTx(e, 1)
    \/ \E e \in BioBucketKinds : IngestBio(e, 1)
    \/ SecureHealthOverview(4)
    \/ PlainDashboard

SpecStreams == SignedIn /\ [][NextStreams]_vars

-----------------------------------------------------------------------------
(* Health score: a few hours of both streams, in batches of one or four rows *)

TxHealthKinds ==
    [date : {8, 9}, hour : {10, 11}, spice_message : {"SUCCESS", "FAILED"},
     aggregator : {"YBL"}, amount : {10000000}]

BioHealthKinds ==
    [date : {9}, hour : {10}, client_id : {"c1", NullStr},
     AGGREGATOR : {"NSDL"}, RC : {"00", "01"}]

NextHealth ==
    \/ \E e \in TxHealthKinds, c \in {1, 4} : IngestTx(e, c)
    \/ \E e \in BioHealthKinds : IngestBio(e, 1)
    \/ SecureHealthOverview(4)
    \/ PlainDashboard

SpecHealth == SignedIn /\ [][NextHealth]_vars

-----------------------------------------------------------------------------
(* Top movers: the rows of up to seven states, yesterday and two days before *)

StateEv(st, d, amt) ==
    [final_state |-> st, date |-> d, spice_message |-> "SUCCESS", trans_amt |-> amt]

\* the rows of state st: amount cur yesterday (none when 0) and the amounts
\* of hist on the days before yesterday
StateProfile(st, cur, hist) ==
    SetToBag((IF cur = 0 THEN {} ELSE {StateEv(st, 99, cur)})
             \cup {StateEv(st, 99 - i, hist[i]) : i \in 1..Len(hist)})

FillerStates == {"F1", "F2", "F3", "F4", "F5"}

FillerIndex(st) ==
    CASE st = "F1" -> 1 [] st = "F2" -> 2 [] st = "F3" -> 3
      [] st = "F4" -> 4 [] st = "F5" -> 5

StateProfiles(st) ==
    IF st = "A"
    THEN ({StateProfile(st, cur, hist) :
              cur \in {0, 5000000, 400000000, 1500000000},
              hist \in {<< >>, <<1000000000>>, <<1000000000, 2000000000>>}}
          \ {EmptyBag})
         \cup {SetToBag({[StateEv(st, 99, 1500000000)
                              EXCEPT !.spice_message = "Success"],
                         StateEv(st, 98, 1000000000)}),
               SetToBag({StateEv(st, 99, 1500000000),
                         [StateEv(st, 98, 1000000000)
                              EXCEPT !.spice_message = "FAILED"]}),
               SetToBag({StateEv(st, 99, 1500000000),
                         StateEv(st, 92, 200000000), StateEv(st, 85, 400000000),
                         StateEv(st, 68, 200000000), StateEv(st, 40, 400000000)})}
    ELSE IF st = "B"
    THEN {StateProfile(st, 400000000, <<1000000000>>),
          StateProfile(st, 1500000000, <<1000000000>>),
          StateProfile(st, 300000000, <<200000000>>)}
    ELSE {StateProfile(st, (20 + FillerIndex(st)) * 10000000, <<100000000>>),
          StateProfile(st, (10 + FillerIndex(st)) * 1000000, <<100000000>>)}

NextState ==
    \/ \E st \in {"A", "B"} \cup FillerStates :
          \E P \in StateProfiles(st) : IngestState(st, P)
    \/ SecureStateMetrics

InitState == SignedIn /\ selected_date = 10

SpecState == InitState /\ [][NextState]_vars

-----------------------------------------------------------------------------
(* Baselines of hours and of states together *)

NextBaseline ==
    \/ \E e \in TxBaselineKinds : IngestTx(e, 1)
    \/ \E P \in StateProfiles("A") : IngestState("A", P)
    \/ SecureHealthOverview(4)
    \/ PlainDashboard
    \/ SecureStateMetrics

SpecBaseline == SignedIn /\ [][NextBaseline]_vars

-----------------------------------------------------------------------------
(* Flags of both streams over baselines of two earlier days, at every *)
(* position of the sensitivity slider                                 *)

BioBaselineKinds ==
    [date : {2, 8, 9}, hour : {10}, client_id : {"c1"},
     AGGREGATOR : {"NSDL"}, RC : {"00", "01"}]

TxGtvKinds ==
    [date : {2, 8, 9}, hour : {10}, spice_message : {"SUCCESS"},
     aggregator : {"YBL"}, amount : {10000000, 20000000, 30000000}]

NextFlags ==
    \/ \E e \in TxGtvKinds : IngestTx(e, 1)
    \/ \E e \in BioBaselineKinds : IngestBio(e, 1)
    \/ \E k \in SliderPositions : SecureHealthOverview(k)

SpecFlags == SignedIn /\ [][NextFlags]_vars

-----------------------------------------------------------------------------
(* Reruns of the secure script over a warehouse loaded before the first run, *)
(* with cache entries that outlive their ttl, a source that may fail and a   *)
(* day that may pass                                                         *)

TxRerunKinds ==
    [date : {9}, hour : {10}, spice_message : {"SUCCESS", "FAILED"},
     aggregator : {"YBL"}, amount : {10000000}]

StateRerunProfiles ==
    {StateProfile("A", 1500000000, <<1000000000>>),
     StateProfile("A", 400000000, <<1000000000, 2000000000>>)}

NextRerun ==
    \/ \E e \in TxRerunKinds : script = "none" /\ IngestTx(e, 1)
    \/ \E P \in StateRerunProfiles : script = "none" /\ IngestState("A", P)
    \/ \E up \in SUBSET {"secure.transaction_success", "secure.bio_authentication"} :
          HealthOverviewRun(4, up)
    \/ \E up \in {{}, {"secure.state_metrics"}} :
          StateMetricsRun(up \cup {"secure.transaction_success",
                                   "secure.bio_authentication"})
    \/ Rerun
    \/ Tick(ttl)
    \/ Midnight

SpecRerun == SignedIn /\ [][NextRerun]_vars

-----------------------------------------------------------------------------
(* A session of the secure script from its first run: the login form, the *)
(* logout and the auto-refresh of the Health Overview                     *)

Passwords == {correct_password, "spicemoney"}

InitSession == Init /\ approx_rank = "upper" /\ selected_date = 9

NextSession ==
    \/ LoginGate
    \/ \E password \in Passwords : Login(password)
    \/ Logout
    \/ \E on \in BOOLEAN, minutes \in {1, 5} : SetAutoRefresh(on, minutes)
    \/ \E d \in {60, 240} : Tick(d)
    \/ \E up \in {{}, queries} : HealthOverviewRun(4, up)
    \/ Rerun

SpecSession == InitSession /\ [][NextSession]_vars

-----------------------------------------------------------------------------
(* Calls of get_bigquery_data over a warehouse that keeps receiving rows, *)
(* with and without the private key, while the source answers or raises   *)

InitCache ==
    /\ \E c \in {required_fields, required_fields \ {"private_key"}} :
          Start(LoggedIn, c)
    /\ approx_rank = "upper"
    /\ selected_date = 9

NextCache ==
    \/ \E e \in TxRerunKinds : IngestTx(e, 1)
    \/ \E up \in {{}, queries} : HealthOverviewRun(4, up)
    \/ \E up \in {{}, queries} : PlainRun(up)
    \/ \E up \in {{}, queries} : FetchUnknown(up)
    \/ Rerun
    \/ \E d \in {120, 180} : Tick(d)

SpecCache == InitCache /\ [][NextCache]_vars

-----------------------------------------------------------------------------
(* Vocabulary of the properties *)

Rendered == pc = "rendered"

Rows(df) == {df.rows[i] : i \in 1..Len(df.rows)}

\* the events of a bag that are not dated d
WithoutDate(E, d) == Where(E, {e \in DOMAIN E : e.date # d})

\* the four-way classification behind the labels of the three flag columns
FlagKind(label) ==
    CASE label \in {"low", "lower anomaly", "Lower Anomaly"}   -> "lower"
      [] label \in {"high", "upper anomaly", "Upper Anomaly"}  -> "upper"
      [] label \in {"normal", "Normal"}                        -> "normal"
      [] OTHER                                                 -> "no-data"

\* hourly_metrics of the run that produced the frames
TxMetrics == tx_hourly_metrics(txEvents, selected_date)

\* the row of hourly_metrics for hour h of the selected date (zero counts
\* when the hour has no row)
TxCurrent(h) ==
    TxHourlyRow(TxWindow(txEvents, selected_date), selected_date, h)

\* the rows of the 7 days before the selected date for hour h
TxHistory(h) == HistoryOf(TxMetrics, h, selected_date - 7, selected_date - 1)

\* the transaction rows of a frame that stand for a bucket of the selected
\* date (the plain query also returns the hours that only the history has)
CurrentTxRows ==
    {r \in Rows(transaction_data) : TxCurrent(r.hour).total_txns > 0}

-----------------------------------------------------------------------------
(* C1 *)

\* C1: for every bucket of the returned transaction frame, a success rate
\* whose own total is 0 (the overall total, or the total of one aggregator
\* slice) is null / no-data, never 0.
C1_ZeroTotalRateIsNoData ==
    Rendered =>
        \A r \in Rows(transaction_data) :
            LET m == TxCurrent(r.hour)
            IN  /\ m.total_txns = 0 => ~r.overall_success_rate.def
                /\ m.ybl_total  = 0 => ~r.ybl_success_rate.def
                /\ m.nsdl_total = 0 => ~r.nsdl_success_rate.def
                /\ m.ybln_total = 0 => ~r.ybln_success_rate.def

-----------------------------------------------------------------------------
(* C2 *)

\* C2: the baseline columns of every returned row (hourly rows of both
\* transaction queries, state rows of state_metrics) are what the query
\* computes after the events of the evaluation period (the selected date for
\* the hourly queries, yesterday for state_metrics) are removed: no bucket of
\* the evaluation period is in the historical sample.
C2_BaselineExcludesEvaluationPeriod ==
    Rendered =>
        /\ script = "secure" =>
              \A r \in Rows(transaction_data) :
                  LET h == secure_historical_metrics(
                               tx_hourly_metrics(WithoutDate(txEvents, selected_date),
                                                 selected_date),
                               r.hour, selected_date)
                  IN  /\ r.avg_success_rate = h.avg_success_rate
                      /\ r.stddev_success_rate = h.stddev_success_rate
                      /\ r.avg_amount_cr = h.avg_amount_cr
                      /\ r.stddev_amount_cr = h.stddev_amount_cr
        /\ script = "plain" =>
              \A r \in Rows(transaction_data) :
                  LET h == median_sd_data(
                               tx_hourly_metrics(WithoutDate(txEvents, selected_date),
                                                 selected_date),
                               r.hour, selected_date, approx_rank)
                  IN  /\ r.median_amount_cr = h.median_amount_cr
                      /\ r.median_success_txns = h.median_success_txns
                      /\ r.median_success_rate = h.median_success_rate
        /\ \A r \in Rows(state_data) :
              LET h == historical_stats(WithoutDate(stateEvents, current_date - 1),
                                        r.final_state, current_date, approx_rank)
              IN  /\ r.median_90d_gtv = h.median_90d_gtv
                  /\ r.median_90d_success_rate = h.median_90d_success_rate
                  /\ r.stddev_90d_gtv = h.stddev_90d_gtv
                  /\ r.stddev_90d_success_rate = h.stddev_90d_success_rate

\* a run returned an hourly row and a state row that both have a baseline
\* and a current value
C2_Witness ==
    /\ Rendered
    /\ script = "secure"
    /\ \E r \in Rows(transaction_data) :
          r.avg_amount_cr.def /\ r.total_amount_cr.def
    /\ \E r \in Rows(state_data) :
          r.median_90d_gtv.def /\ r.yesterday_gtv.def

-----------------------------------------------------------------------------
(* C3 *)

\* the rule of the claim for a band given by a variance and k in halves
ClassifySq(c, m, kh, var) ==
    IF ~c.def \/ ~m.def \/ ~var.def THEN "no-data"
    ELSE IF BelowBandSq(c, m, kh, var) THEN "lower"
    ELSE IF AboveBandSq(c, m, kh, var) THEN "upper"
    ELSE "normal"

\* the rule of the claim for a band given by a standard deviation and k = 1
Classify(c, m, sd) ==
    IF ~c.def \/ ~m.def \/ ~sd.def THEN "no-data"
    ELSE IF BelowBand(c, m, sd) THEN "lower"
    ELSE IF AboveBand(c, m, sd) THEN "upper"
    ELSE "normal"

\* C3: every flag the dashboards compute (the local GTV flag of the Health
\* Overview with the slider's k, the success-rate flag of the plain query with
\* its k = 1) is no-data when the baseline is undefined or the current value
\* is null, and otherwise lower iff c < m - k*s, upper iff c > m + k*s, and
\* normal in between.
C3_FlagFollowsClassifier ==
    Rendered =>
        /\ (script = "secure" /\ "amount_cr_anomaly_local" \in tx2.columns) =>
              \A r \in Rows(tx2) :
                  FlagKind(r.amount_cr_anomaly_local) =
                      ClassifySq(r.total_amount_cr, r.avg_amount_cr, anomaly_k,
                                 r.stddev_amount_cr)
        /\ script = "plain" =>
              \A r \in Rows(transaction_data) :
                  LET m == median_sd_data(TxMetrics, r.hour, selected_date, approx_rank)
                  IN  FlagKind(r.success_rate_anomaly) =
                          Classify(r.overall_success_rate, m.median_success_rate,
                                   m.stddev_success_rate)

-----------------------------------------------------------------------------
(* C4 *)

\* C4: a bucket of the selected date whose hour has fewer than 2 historical
\* periods in the baseline window has an undefined baseline and the flag
\* no-data, in both transaction queries and in the local GTV flag.
C4_ShortWindowIsNoData ==
    Rendered =>
        /\ \A r \in CurrentTxRows :
              Len(TxHistory(r.hour)) < 2 =>
                  /\ FlagKind(r.success_rate_anomaly) = "no-data"
                  /\ script = "secure" =>
                         /\ ~r.avg_success_rate.def /\ ~r.stddev_success_rate.def
                         /\ FlagKind(r.amount_cr_anomaly) = "no-data"
                  /\ script = "plain" => ~r.median_success_rate.def
        /\ "amount_cr_anomaly_local" \in tx2.columns =>
              \A r \in Rows(tx2) :
                  Len(TxHistory(r.hour)) < 2 =>
                      FlagKind(r.amount_cr_anomaly_local) = "no-data"

-----------------------------------------------------------------------------
(* C9 *)

\* all the values of a non-empty sequence of cells are the same defined value
Constant(s) == Len(s) > 0 /\ \A i \in 1..Len(s) : s[i].def /\ s[i] = s[1]

\* the GTV values of the baseline window of hour h
WindowAmounts(h) == Column(TxHistory(h), [m \in Range(TxHistory(h)) |-> m.total_amount_cr])

\* the success rates of the baseline window of hour h, to the 2 decimals
\* the dashboards report them with
WindowRates(h) ==
    Column(TxHistory(h),
           [m \in Range(TxHistory(h)) |-> PlainRate(m.success_txns, m.total_txns)])

\* C9: when the baseline window of a bucket holds one constant value v, so
\* that its standard deviation is 0 (at least 2 periods for the sample
\* deviation of the secure script, at least 1 for the population deviation of
\* the plain query), then for every slider position k the local GTV flag is
\* normal when the current GTV is v and upper when it is above v, and the
\* success-rate flag of the plain query is normal when the current rate is v
\* and upper when it is above v (rates as reported, to 2 decimals).
C9_ZeroDeviationBand ==
    Rendered =>
        /\ (script = "secure" /\ "amount_cr_anomaly_local" \in tx2.columns) =>
              \A r \in Rows(tx2) :
                  LET w == WindowAmounts(r.hour)
                      c == r.total_amount_cr
                  IN  (Constant(w) /\ Len(w) >= 2 /\ c.def) =>
                          /\ c = w[1] =>
                                 FlagKind(r.amount_cr_anomaly_local) = "normal"
                          /\ RatLess(w[1], c) =>
                                 FlagKind(r.amount_cr_anomaly_local) = "upper"
        /\ script = "plain" =>
              \A r \in Rows(transaction_data) :
                  LET w == WindowRates(r.hour)
                      c == r.overall_success_rate
                  IN  (Constant(w) /\ c.def) =>
                          /\ c = w[1] =>
                                 FlagKind(r.success_rate_anomaly) = "normal"
                          /\ RatLess(w[1], c) =>
                                 FlagKind(r.success_rate_anomaly) = "upper"

\* the Health Overview flagged a GTV above a constant two-day window as
\* high, with the slider away from its default
C9_Witness ==
    /\ Rendered
    /\ script = "secure"
    /\ anomaly_k # 4
    /\ "amount_cr_anomaly_local" \in tx2.columns
    /\ \E r \in Rows(tx2) :
          /\ Constant(WindowAmounts(r.hour))
          /\ Len(WindowAmounts(r.hour)) >= 2
          /\ RatLess(WindowAmounts(r.hour)[1], r.total_amount_cr)
          /\ r.amount_cr_anomaly_local = "high"

-----------------------------------------------------------------------------
(* C5, C6, C8 *)

\* the two inputs of the health score: the mean rate of each frame, missing
\* when the frame has no rows or no rate
TxInput ==
    IF Empty(transaction_data) THEN NULL
    ELSE Mean(transaction_data,
              [r \in Range(transaction_data.rows) |-> r.overall_success_rate])

BioInput ==
    IF Empty(bio_auth_data) THEN NULL
    ELSE Mean(bio_auth_data, [r \in Range(bio_auth_data.rows) |-> r.fa2_rate_yesterday])

\* equality of two defined rationals
RatEq(a, b) == a.def /\ b.def /\ a.n * b.d = b.n * a.d

\* a rate clamped to [0, 100]
Clamp(x) ==
    IF RatLess(x, Int2Rat(0)) THEN Int2Rat(0)
    ELSE IF RatLess(Int2Rat(100), x) THEN Int2Rat(100)
    ELSE x

\* 10 * o = 7 * clamp(t) + 3 * clamp(b)
IsWeighted(o, t, b) ==
    LET ct == Clamp(t)
        cb == Clamp(b)
    IN  /\ o.def
        /\ 10 * o.n * ct.d * cb.d = o.d * (7 * ct.n * cb.d + 3 * cb.n * ct.d)

\* C5: when both success rates are present the overall health score is
\* 0.7 * (transaction rate clamped to [0, 100]) + 0.3 * (bio rate clamped to
\* [0, 100]); rates 100 and 100 give 100, rates 80 and 100 give 86.
C5_WeightedScore ==
    Rendered =>
        /\ (TxInput.def /\ BioInput.def) =>
              IsWeighted(health.overall_health_score, TxInput, BioInput)
        /\ (RatEq(TxInput, Int2Rat(100)) /\ RatEq(BioInput, Int2Rat(100))) =>
              RatEq(health.overall_health_score, Int2Rat(100))
        /\ (RatEq(TxInput, Int2Rat(80)) /\ RatEq(BioInput, Int2Rat(100))) =>
              RatEq(health.overall_health_score, Int2Rat(86))

\* a dashboard scored a transaction rate of 80 and a bio rate of 100 as 86
C5_Witness ==
    /\ Rendered
    /\ RatEq(TxInput, Int2Rat(80))
    /\ RatEq(BioInput, Int2Rat(100))
    /\ RatEq(health.overall_health_score, Int2Rat(86))

\* C6: when one of the two inputs is missing (its frame is empty or has no
\* rate) it is not counted as 0: its term is left out and the weights are
\* renormalised, so the score is the clamped rate of the input that is there.
C6_MissingInputRenormalised ==
    Rendered =>
        /\ (TxInput.def /\ ~BioInput.def) =>
              RatEq(health.overall_health_score, Clamp(TxInput))
        /\ (~TxInput.def /\ BioInput.def) =>
              RatEq(health.overall_health_score, Clamp(BioInput))

\* C8: whatever the two frames are (empty, all-null rates, any rates), the
\* overall health score is a number in [0, 100].
C8_ScoreInRange ==
    Rendered =>
        /\ health.overall_health_score.def
        /\ ~RatLess(health.overall_health_score, Int2Rat(0))
        /\ ~RatLess(Int2Rat(100), health.overall_health_score)

\* a dashboard scored an empty transaction frame and a bio frame whose rates
\* are all null
C8_Witness ==
    /\ Rendered
    /\ Empty(transaction_data)
    /\ ~Empty(bio_auth_data)
    /\ ~BioInput.def
    /\ health.overall_health_score.def

-----------------------------------------------------------------------------
(* C7 *)

\* null, or a number in [0, 100]
RateOrNoData(x) ==
    ~x.def \/ (~RatLess(x, Int2Rat(0)) /\ ~RatLess(Int2Rat(100), x))

\* C7: every success rate of every returned bucket, overall and per
\* aggregator, in the transaction frame and in the bio frame, is in
\* [0, 100] or is no-data.
C7_RatesInRange ==
    Rendered =>
        /\ \A r \in Rows(transaction_data) :
              /\ RateOrNoData(r.overall_success_rate)
              /\ RateOrNoData(r.ybl_success_rate)
              /\ RateOrNoData(r.nsdl_success_rate)
              /\ RateOrNoData(r.ybln_success_rate)
        /\ \A r \in Rows(bio_auth_data) :
              /\ RateOrNoData(r.fa2_rate_yesterday)
              /\ RateOrNoData(r.nsdl_rate_yesterday)
              /\ RateOrNoData(r.ybl_rate_yesterday)

\* a run returned a transaction bucket with a rate strictly between 0 and 100
\* and a bio bucket with an overall and an NSDL rate
C7_Witness ==
    /\ Rendered
    /\ \E r \in Rows(transaction_data) :
          /\ r.overall_success_rate.def
          /\ RatLess(Int2Rat(0), r.overall_success_rate)
          /\ RatLess(r.overall_success_rate, Int2Rat(100))
    /\ \E r \in Rows(bio_auth_data) :
          r.fa2_rate_yesterday.def /\ r.nsdl_rate_yesterday.def

-----------------------------------------------------------------------------
(* C10 *)

\* current-period GTV over the 90-day median GTV of a state row
RatioOf(r) == SafeDivideCells(r.yesterday_gtv, r.median_90d_gtv)

\* current-period GTV above the volume floor of 1.0 Cr
AboveFloor(r) == r.yesterday_gtv.def /\ RatLess(Int2Rat(1), r.yesterday_gtv)

\* the rows the thresholds of the ranker let through
GainerRows ==
    {r \in Rows(state_data) :
        AboveFloor(r) /\ RatioOf(r).def /\ RatLess(Rat(11, 10), RatioOf(r))}

LoserRows ==
    {r \in Rows(state_data) :
        AboveFloor(r) /\ RatioOf(r).def /\ RatLess(RatioOf(r), Rat(9, 10))}

InGainers(r) == r \in Range(movers.gainers)

InLosers(r) == r \in Range(movers.losers)

\* a row with current GTV c and median GTV m, both in Cr
HasGtv(r, c, m) ==
    RatEq(r.yesterday_gtv, Int2Rat(c)) /\ RatEq(r.median_90d_gtv, Int2Rat(m))

-----------------------------------------------------------------------------
(* C11 *)

\* the ratios current/median of a list of state rows, in list order
Ratios(rows) == [i \in 1..Len(rows) |-> RatioOf(rows[i])]

\* C11: the gainers are listed by ratio current/median descending and the
\* decliners by ratio ascending: of two consecutive gainers the earlier has a
\* ratio >= that of the later, of two consecutive decliners a ratio <= it.
C11_MoversOrdered ==
    Rendered =>
        /\ \A i \in 1..(Len(movers.gainers) - 1) :
              ~RatLess(Ratios(movers.gainers)[i], Ratios(movers.gainers)[i + 1])
        /\ \A i \in 1..(Len(movers.losers) - 1) :
              ~RatLess(Ratios(movers.losers)[i + 1], Ratios(movers.losers)[i])

\* the page listed at least two gainers of different ratios and at least two
\* decliners of different ratios
C11_Witness ==
    /\ Rendered
    /\ Len(movers.gainers) >= 2
    /\ RatLess(Ratios(movers.gainers)[2], Ratios(movers.gainers)[1])
    /\ Len(movers.losers) >= 2
    /\ RatLess(Ratios(movers.losers)[1], Ratios(movers.losers)[2])

-----------------------------------------------------------------------------
(* C12 *)

\* the events of the transaction stream in the bucket of hour h of the
\* selected date
BucketEvents(h) == {e \in DOMAIN txEvents : e.date = selected_date /\ e.hour = h}

\* the number of events among the kinds S, each counted as often as it occurs
NumEvents(S) == SumFn([e \in S |-> txEvents[e]])

\* the success predicate of the transaction stream
Succeeded(e) == e.spice_message \in {"success", "Success", "SUCCESS"}

\* the events of S that went through aggregator a
Through(S, a) == {e \in S : e.aggregator = a}

\* the sum of the amounts of the events among the kinds S
SumAmounts(S) == SumFn([e \in S |-> txEvents[e] * e.amount])

\* cell r is 100 * s / t to 2 decimals, halves rounded up
IsPercent2(r, s, t) ==
    /\ r.def
    /\ (r.n * 100) % r.d = 0
    /\ LET q == (r.n * 100) \div r.d
       IN  2 * q * t <= 20000 * s + t /\ 20000 * s + t < 2 * (q + 1) * t

\* cell c, an amount in Cr (10^7), is the sum of the amounts of the events
\* among the kinds S; the sum of no event is reported as null
IsAmountCr(c, S) ==
    IF c.def THEN c.n * 10000000 = c.d * SumAmounts(S) ELSE S = {}

\* the bucket of the scenario: one successful YBL event of amount 100, one
\* failed YBL event of amount 50 and one successful NSDL event of amount 200
ScenarioBucket(G) ==
    /\ NumEvents(G) = 3
    /\ \E a, b, c \in G :
          /\ Succeeded(a) /\ a.aggregator = "YBL" /\ a.amount = 100
          /\ ~Succeeded(b) /\ b.aggregator = "YBL" /\ b.amount = 50
          /\ Succeeded(c) /\ c.aggregator = "NSDL" /\ c.amount = 200

\* C12: for every bucket of the selected date that has events, the returned
\* row (of either script) has total = the number of events (where the frame
\* has the column), success = the number of events matching the success
\* predicate, amount = the sum of the amounts of the successful events only
\* (in Cr; null when nothing succeeded), overall rate = 100 * success / total
\* to 2 decimals, and for every aggregator with events the rate 100 *
\* (successes with it) / (events with it), to 2 decimals; the bucket of the
\* scenario has total 3, success 2, overall 66.67, YBL 50 and NSDL 100.
C12_BucketAggregates ==
    Rendered =>
        \A r \in Rows(transaction_data) :
            LET G == BucketEvents(r.hour)
                S == {e \in G : Succeeded(e)}
            IN  G # {} =>
                /\ "total_txns" \in transaction_data.columns =>
                       RatEq(r.total_txns, Int2Rat(NumEvents(G)))
                /\ RatEq(r.success_txns, Int2Rat(NumEvents(S)))
                /\ IsAmountCr(r.total_amount_cr, S)
                /\ IsPercent2(r.overall_success_rate, NumEvents(S), NumEvents(G))
                /\ Through(G, "YBL") # {} =>
                       IsPercent2(r.ybl_success_rate, NumEvents(Through(S, "YBL")),
                                  NumEvents(Through(G, "YBL")))
                /\ Through(G, "NSDL") # {} =>
                       IsPercent2(r.nsdl_success_rate, NumEvents(Through(S, "NSDL")),
                                  NumEvents(Through(G, "NSDL")))
                /\ ScenarioBucket(G) =>
                       /\ RatEq(r.success_txns, Int2Rat(2))
                       /\ RatEq(r.overall_success_rate, Rat(6667, 100))
                       /\ RatEq(r.ybl_success_rate, Int2Rat(50))
                       /\ RatEq(r.nsdl_success_rate, Int2Rat(100))

\* the secure script returned the row of the bucket of the scenario: total 3,
\* success 2, amount 300 / 10^7 Cr, overall rate 66.67
C12_Witness ==
    /\ Rendered
    /\ script = "secure"
    /\ \E r \in Rows(transaction_data) :
          /\ ScenarioBucket(BucketEvents(r.hour))
          /\ RatEq(r.total_txns, Int2Rat(3))
          /\ RatEq(r.success_txns, Int2Rat(2))
          /\ RatEq(r.total_amount_cr, Rat(300, 10000000))
          /\ RatEq(r.overall_success_rate, Rat(6667, 100))

-----------------------------------------------------------------------------
(* C13 *)

\* the aggregators the dashboards break a bucket down by
Tracked == {"YBL", "NSDL", "YBLN"}

\* the events of S whose aggregator is null or is not a tracked one
Untracked(S) == {e \in S : e.aggregator \notin Tracked}

\* C13: in the hourly_metrics row of every returned bucket of the selected
\* date, the events whose aggregator is null or untracked are counted in the
\* overall total and, when successful, in the overall success count, while
\* each per-aggregator total and success count counts the events of that
\* aggregator only; so the per-aggregator totals sum to at most the overall
\* total.
C13_UntrackedOnlyInOverall ==
    Rendered =>
        \A r \in Rows(transaction_data) :
            LET G == BucketEvents(r.hour)
                S == {e \in G : Succeeded(e)}
                m == TxCurrent(r.hour)
            IN  G # {} =>
                /\ m.total_txns = NumEvents(G \ Untracked(G)) + NumEvents(Untracked(G))
                /\ m.success_txns = NumEvents(S \ Untracked(S)) + NumEvents(Untracked(S))
                /\ RatEq(r.success_txns, Int2Rat(m.success_txns))
                /\ m.ybl_total    = NumEvents(Through(G, "YBL"))
                /\ m.nsdl_total   = NumEvents(Through(G, "NSDL"))
                /\ m.ybln_total   = NumEvents(Through(G, "YBLN"))
                /\ m.ybl_success  = NumEvents(Through(S, "YBL"))
                /\ m.nsdl_success = NumEvents(Through(S, "NSDL"))
                /\ m.ybln_success = NumEvents(Through(S, "YBLN"))
                /\ m.ybl_total + m.nsdl_total + m.ybln_total <= m.total_txns

\* a run returned a bucket that holds a successful event without aggregator,
\* an event of an untracked aggregator and an event of a tracked one
C13_Witness ==
    /\ Rendered
    /\ \E r \in Rows(transaction_data) :
          LET G == BucketEvents(r.hour)
              m == TxCurrent(r.hour)
          IN  /\ \E e \in G : e.aggregator = NullStr /\ Succeeded(e)
              /\ \E e \in G : e.aggregator = "FINO"
              /\ \E e \in G : e.aggregator \in Tracked
              /\ m.total_txns = 3
              /\ m.ybl_total + m.nsdl_total + m.ybln_total = 1
              /\ RatEq(r.success_txns, Int2Rat(m.success_txns))

-----------------------------------------------------------------------------
(* C14 *)

\* the events of state st dated yesterday that carry an amount
PaidYesterday(st) ==
    {e \in DOMAIN stateEvents :
        e.final_state = st /\ e.date = current_date - 1 /\ e.trans_amt > 0}

\* the number of state events among the kinds S
NumStateEvents(S) == SumFn([e \in S |-> stateEvents[e]])

\* the attempts of the bio-auth stream in the bucket of hour h of the
\* selected date: the rows that carry a client
BioAttempts(h) ==
    {e \in DOMAIN bioEvents :
        e.date = selected_date /\ e.hour = h /\ e.client_id # NullStr}

\* C14: every aggregation counts as successful exactly the events that match
\* the predicate of their stream: in the hourly rows and in the state rows of
\* the transaction stream the events whose message is 'success' in any letter
\* case, in the rows of the bio-auth stream the attempts whose response code
\* is '00'.
C14_SuccessPredicates ==
    Rendered =>
        /\ \A r \in Rows(transaction_data) :
              BucketEvents(r.hour) # {} =>
                  RatEq(r.success_txns,
                        Int2Rat(NumEvents({e \in BucketEvents(r.hour) : Succeeded(e)})))
        /\ \A r \in Rows(state_data) :
              LET P == PaidYesterday(r.final_state)
                  S == {e \in P : Succeeded(e)}
              IN  P # {} =>
                      /\ r.yesterday_success_rate.def
                      /\ r.yesterday_success_rate.n * NumStateEvents(P)
                             = 100 * NumStateEvents(S) * r.yesterday_success_rate.d
                      /\ S # {} => r.yesterday_gtv.def
        /\ "successful_attempts" \in bio_auth_data.columns =>
              \A r \in Rows(bio_auth_data) :
                  BioAttempts(r.hour) # {} =>
                      RatEq(r.successful_attempts,
                            Int2Rat(SumFn([e \in {x \in BioAttempts(r.hour) : x.RC = "00"}
                                              |-> bioEvents[e]])))

-----------------------------------------------------------------------------
(* C15 *)

\* the tier behind the delta of the overall score
TierOf(delta) ==
    CASE delta = "green"  -> "healthy"
      [] delta = "yellow" -> "watch"
      [] delta = "red"    -> "critical"
      [] OTHER            -> "none"

\* critical < watch < healthy
TierRank(tier) ==
    CASE tier = "healthy" -> 3 [] tier = "watch" -> 2 [] tier = "critical" -> 1
      [] OTHER -> 0

\* the scores 0, 0.5, 1, .. , 100
ScoreGrid == {Rat(i, 2) : i \in 0..200}

\* C15: the tier shown with the overall score is healthy iff the score is
\* >= 90, watch iff 75 <= score < 90 and critical iff score < 75, so exactly
\* one tier applies; and no lower score (of a grid of half points) is given a
\* better tier than the score of the run.
C15_TierByCutPoints ==
    Rendered =>
        LET s == health.overall_health_score
            tier == TierOf(health.overall_delta)
        IN  /\ tier \in {"healthy", "watch", "critical"}
            /\ tier = "healthy" <=> ~RatLess(s, Int2Rat(90))
            /\ tier = "watch" <=> (~RatLess(s, Int2Rat(75)) /\ RatLess(s, Int2Rat(90)))
            /\ tier = "critical" <=> RatLess(s, Int2Rat(75))
            /\ \A x \in ScoreGrid :
                  ~RatLess(s, x) =>
                      TierRank(TierOf(overall_delta(x))) <= TierRank(tier)

\* a run scored 86 and showed the watch tier
C15_Witness ==
    /\ Rendered
    /\ RatEq(health.overall_health_score, Int2Rat(86))
    /\ TierOf(health.overall_delta) = "watch"

-----------------------------------------------------------------------------
(* C16 *)

\* the rows of a frame without the columns a page adds to it
QueryRows(df, columns) == {[c \in columns |-> r[c]] : r \in Rows(df)}

\* both frames are there and hold the same rows of the query
SameRows(df1, df2, columns) ==
    (~df1.is_none /\ ~df2.is_none) =>
        QueryRows(df1, columns) = QueryRows(df2, columns)

\* rows of equal current value, baseline average and baseline deviation
SameFlagInputs(r1, r2) ==
    /\ r1.total_amount_cr = r2.total_amount_cr
    /\ r1.avg_amount_cr = r2.avg_amount_cr
    /\ r1.stddev_amount_cr = r2.stddev_amount_cr

\* C16: over the same events, selected date and k, a later run of the script
\* returns the rows of bucket metrics, baselines and flags an earlier run
\* returned (transaction, bio-auth and state frames, and the local GTV
\* flags), and two buckets of equal current value, baseline and deviation get
\* the same local flag under the k of the run.
C16_RerunsIdentical ==
    [][ (script' = script /\ anomaly_k' = anomaly_k) =>
          /\ SameRows(transaction_data, transaction_data', SecureTxColumns)
          /\ SameRows(bio_auth_data, bio_auth_data', SecureBioColumns)
          /\ SameRows(state_data, state_data', StateColumns)
          /\ SameRows(tx2, tx2', SecureTxColumns \cup {"amount_cr_anomaly_local"})
          /\ ~tx2'.is_none =>
                \A r1, r2 \in Rows(tx2') :
                    SameFlagInputs(r1, r2) =>
                        r1.amount_cr_anomaly_local = r2.amount_cr_anomaly_local
      ]_vars

-----------------------------------------------------------------------------
(* C17 *)

\* the flag of the band of k standard deviations, k in halves; a missing
\* value is in no band
FlagWithK(c, m, kh, var) ==
    IF BelowBandSq(c, m, kh, var) THEN "lower"
    ELSE IF AboveBandSq(c, m, kh, var) THEN "upper"
    ELSE "normal"

\* the variance of the bio-auth baseline of hour h of the run
BioBaselineVar(h) ==
    bio_median_data(bio_hourly_metrics(bioEvents, selected_date, 7), h,
                    selected_date, 7, approx_rank).stddev_succ_rate

\* C17: every flag a run of the secure dashboard reports is the one of the
\* band of k standard deviations for the k of the slider: the success-rate
\* flag and the GTV flags of the transaction rows and the flag of the
\* bio-auth rows.
C17_FlagsUseConfiguredK ==
    (Rendered /\ script = "secure") =>
        /\ \A r \in Rows(transaction_data) :
              FlagKind(r.success_rate_anomaly) =
                  FlagWithK(r.overall_success_rate, r.avg_success_rate,
                            anomaly_k, r.stddev_success_rate)
        /\ "amount_cr_anomaly_local" \in tx2.columns =>
              \A r \in Rows(tx2) :
                  FlagKind(r.amount_cr_anomaly_local) =
                      FlagWithK(r.total_amount_cr, r.avg_amount_cr, anomaly_k,
                                r.stddev_amount_cr)
        /\ \A r \in Rows(bio_auth_data) :
              FlagKind(r.fa2_succ_flag) =
                  FlagWithK(r.fa2_rate_yesterday, r.median_fa2_succ_rate,
                            anomaly_k, BioBaselineVar(r.hour))

-----------------------------------------------------------------------------
(* C18 *)

\* C18: a frame a run of a script obtained is never replaced by None in a
\* later run of that script: when the source fails, the earlier result of
\* the query stays on the page (marked as stale).
C18_EarlierResultsKept ==
    [][ script' = script =>
          /\ ~transaction_data.is_none => ~transaction_data'.is_none
          /\ ~bio_auth_data.is_none => ~bio_auth_data'.is_none
          /\ ~state_data.is_none => ~state_data'.is_none
      ]_vars

-----------------------------------------------------------------------------
(* C19 *)

\* r1 comes before r2 in the table
Before(table, r1, r2) ==
    \E i, j \in 1..Len(table) : i < j /\ table[i] = r1 /\ table[j] = r2

\* two rows of a table with equal ratios are listed with the larger
\* yesterday_gtv first
TiesByCurrentValue(table) ==
    \A r1, r2 \in Range(table) :
        (RatEq(RatioOf(r1), RatioOf(r2)) /\ RatLess(r2.yesterday_gtv, r1.yesterday_gtv))
            => Before(table, r1, r2)

\* C19: in the gainers and in the losers, of two states with equal ratio
\* yesterday_gtv / median_90d_gtv the one with the larger yesterday_gtv
\* comes first.
C19_TiesByCurrentValue ==
    Rendered =>
        /\ TiesByCurrentValue(movers.gainers)
        /\ TiesByCurrentValue(movers.losers)

-----------------------------------------------------------------------------
(* C20 *)

\* the daily rows of state st on the dates of the 90-day window that fall
\* in the slot of yesterday: one row of aggregates per date
SlotDays(st, slot) ==
    LET H == StateHistory(stateEvents, current_date)
        W == Where(H, {e \in DOMAIN H : /\ e.final_state = st
                                        /\ slot[e.date] = slot[current_date - 1]})
        ds == Ascending({e.date : e \in DOMAIN W})
    IN  [i \in 1..Len(ds) |->
            StateAggregates(Where(W, {e \in DOMAIN W : e.date = ds[i]}))]

Weekdays == [x \in 0..current_date |-> EXTRACT_DAYOFWEEK(x)]

DaysOfMonth == [x \in 0..current_date |-> EXTRACT_DAY(x)]

\* C20: a baseline is taken over one value per earlier period in the same
\* slot: the hourly baseline of a transaction row over the rows of that hour
\* on the days before the selected date, the same-weekday medians of a state
\* over its daily values on the earlier dates with yesterday's weekday, and
\* the same-day-of-month medians over its daily values on the earlier dates
\* with yesterday's day of month.
C20_BaselineSlotSamples ==
    (Rendered /\ script = "secure") =>
        /\ \A r \in Rows(transaction_data) :
              LET h == HistoricalAggregates(TxHistory(r.hour))
              IN  /\ r.avg_success_rate = h.avg_success_rate
                  /\ r.avg_amount_cr = h.avg_amount_cr
        /\ ~state_data.is_none =>
              \A r \in Rows(state_data) :
                  LET w == SlotMedianAggregates(SlotDays(r.final_state, Weekdays),
                                                approx_rank)
                      d == SlotMedianAggregates(SlotDays(r.final_state, DaysOfMonth),
                                                approx_rank)
                  IN  /\ r.same_weekday_median_gtv = w.median_gtv
                      /\ r.same_weekday_median_success_rate = w.median_success_rate
                      /\ r.same_day_month_median_gtv = d.median_gtv
                      /\ r.same_day_month_median_success_rate = d.median_success_rate

-----------------------------------------------------------------------------
(* C21 *)

\* the sample variance of the non-null values of s: the sum of the squared
\* deviations from their mean over n - 1, undefined below two values
SampleVariance(s) ==
    LET v == NonNull(s)
        n == Len(v)
        mean == RatDivInt(RatSum(v), n)
    IN  IF n < 2 THEN NULL
        ELSE RatDivInt(RatSum([i \in 1..n |->
                                  RatMul(RatSub(v[i], mean), RatSub(v[i], mean))]),
                       n - 1)

\* C21: the dispersion of every hourly baseline of the transaction queries
\* is the sample standard deviation (n - 1) of the values of the window: the
\* deviations of rate and GTV the secure query returns, and the deviations
\* of rate and GTV the plain query computes (to 2 decimals).
C21_SampleDeviation ==
    Rendered =>
        /\ script = "secure" =>
              \A r \in Rows(transaction_data) :
                  /\ r.stddev_success_rate = SampleVariance(WindowRates(r.hour))
                  /\ r.stddev_amount_cr = SampleVariance(WindowAmounts(r.hour))
        /\ script = "plain" =>
              \A r \in Rows(transaction_data) :
                  LET m == median_sd_data(TxMetrics, r.hour, selected_date, approx_rank)
                  IN  /\ m.stddev_success_rate =
                             RoundedSqrt(SampleVariance(WindowRates(r.hour)))
                      /\ m.stddev_amount_cr =
                             RoundedSqrt(SampleVariance(WindowAmounts(r.hour)))

-----------------------------------------------------------------------------
(* C22 *)

\* the median of the non-null values of s, the upper of the two middle
\* values for an even count
UpperMedian(s) ==
    LET v == SortRat(NonNull(s))
        n == Len(v)
    IN  IF n = 0 THEN NULL ELSE v[n \div 2 + 1]

\* the bio-auth success rates of the baseline window of hour h, back days
BioWindowRates(h, back) ==
    LET H == HistoryOf(bio_hourly_metrics(bioEvents, selected_date, back), h,
                       selected_date - back, selected_date - 1)
    IN  Column(H, [m \in Range(H) |->
                      Times100(SAFE_DIVIDE(m.succ_att_ftr, m.total_att_ftr))])

\* C22: the centre of every hourly baseline is the upper-middle median of
\* the values of the window: the centres of rate and GTV of the secure
\* transaction query, the medians of rate and GTV of the plain one, and the
\* median success rate of the bio-auth query of either script (medians as
\* reported, to 2 decimals).
C22_UpperMedianCentre ==
    Rendered =>
        /\ script = "secure" =>
              \A r \in Rows(transaction_data) :
                  /\ r.avg_success_rate = UpperMedian(WindowRates(r.hour))
                  /\ r.avg_amount_cr = UpperMedian(WindowAmounts(r.hour))
        /\ script = "plain" =>
              \A r \in Rows(transaction_data) :
                  LET m == median_sd_data(TxMetrics, r.hour, selected_date, approx_rank)
                  IN  /\ m.median_success_rate =
                             ROUND(UpperMedian(WindowRates(r.hour)), 100)
                      /\ m.median_amount_cr =
                             ROUND(UpperMedian(WindowAmounts(r.hour)), 100)
        /\ \A r \in Rows(bio_auth_data) :
              r.median_fa2_succ_rate =
                  ROUND(UpperMedian(BioWindowRates(r.hour,
                                                   IF script = "secure" THEN 7 ELSE 8)),
                        100)

-----------------------------------------------------------------------------
(* C23 *)

\* a cell that is an error marker: neither a number nor the null of no data
IsErrorSentinel(cell) == cell # NULL /\ ~cell.def

\* a defined cell equal to 0
IsZero(cell) == cell.def /\ cell.n = 0

\* C23: when the success rate of yesterday is not 0 and the median success
\* rate it is divided by is 0, the ratio the state query returns is an error
\* marker: not the null of a state without history, and not a number.
C23_DivisionByZeroSentinel ==
    (Rendered /\ ~state_data.is_none) =>
        \A r \in Rows(state_data) :
            (r.yesterday_success_rate.def /\ ~IsZero(r.yesterday_success_rate)
                 /\ IsZero(r.median_90d_success_rate))
                => IsErrorSentinel(r.success_vs_median_ratio)

-----------------------------------------------------------------------------
(* C24 *)

\* C24: at the end of a run of the secure dashboard the transaction and
\* bio-auth frames have the columns and the values get_bigquery_data
\* returned them with.
C24_FetchedFramesUnchanged ==
    (Rendered /\ script = "secure") =>
        /\ transaction_data = cache["secure.transaction_success"].value
        /\ bio_auth_data = cache["secure.bio_authentication"].value

-----------------------------------------------------------------------------
(* C30 *)

\* C30: for the rows of a run of the Health Overview, the local GTV flag
\* loses anomalies and gains none as k grows: a row that is normal at a
\* slider position is normal at every higher one, a row flagged at a
\* position has the same flag at every lower one, the flag of the run is
\* the one of its slider position, and at no position is a row below and
\* above the band at once.
C30_FlagsShrinkWithK ==
    (Rendered /\ script = "secure" /\ "amount_cr_anomaly_local" \in tx2.columns) =>
        \A r \in Rows(tx2) :
            /\ r.amount_cr_anomaly_local = amount_cr_anomaly_local(r, anomaly_k)
            /\ \A k1, k2 \in SliderPositions :
                  k1 < k2 =>
                      /\ amount_cr_anomaly_local(r, k1) = "normal"
                            => amount_cr_anomaly_local(r, k2) = "normal"
                      /\ amount_cr_anomaly_local(r, k2) # "normal"
                            => amount_cr_anomaly_local(r, k1) = amount_cr_anomaly_local(r, k2)
            /\ \A k \in SliderPositions :
                  ~(/\ BelowBandSq(r.total_amount_cr, r.avg_amount_cr, k,
                                   r.stddev_amount_cr)
                    /\ AboveBandSq(r.total_amount_cr, r.avg_amount_cr, k,
                                   r.stddev_amount_cr))

\* a run at k = 2 flagged a bucket high that is normal at k = 2.5
C30_Witness ==
    /\ Rendered
    /\ script = "secure"
    /\ anomaly_k = 4
    /\ "amount_cr_anomaly_local" \in tx2.columns
    /\ \E r \in Rows(tx2) :
          /\ r.amount_cr_anomaly_local = "high"
          /\ amount_cr_anomaly_local(r, 5) = "normal"

-----------------------------------------------------------------------------
(* C29 *)

\* the number of rows of a frame whose flag in column is a lower or an upper
\* anomaly
AnomalyRows(df, column) ==
    Cardinality({i \in 1..Len(df.rows) :
                    FlagKind(df.rows[i][column]) \in {"lower", "upper"}})

\* C29: every bucket listed in an anomaly alert has a current value and a
\* lower-anomaly or upper-anomaly flag, and the active-anomaly count of
\* aeps_health_dashboard.py is the number of such buckets of the two frames:
\* a bucket without a current value (no-data) is neither listed nor counted.
C29_MissingValueNeverAlerted ==
    (Rendered /\ script \in {"secure", "plain"}) =>
        /\ \A r \in Range(alerts.transaction_anomalies) :
              /\ r.overall_success_rate.def
              /\ FlagKind(r.success_rate_anomaly) \in {"lower", "upper"}
        /\ \A r \in Range(alerts.bio_anomalies) :
              /\ r.fa2_rate_yesterday.def
              /\ FlagKind(r.fa2_succ_flag) \in {"lower", "upper"}
        /\ script = "plain" =>
              alerts.total_anomalies =
                  AnomalyRows(transaction_data, "success_rate_anomaly")
                  + AnomalyRows(bio_auth_data, "fa2_succ_flag")

-----------------------------------------------------------------------------
(* C25 *)

\* the query_names of aeps_health_dashboard_secure.py
SecureQueries == CacheKeys \ {"plain.transaction_success", "plain.bio_auth_success"}

\* C25: a step of a session that is not authenticated makes no call of
\* get_bigquery_data of the secure script and renders no page of it; the run
\* that leaves the idle state then ends at the login form.  The session
\* becomes authenticated only from the login form and with the configured
\* password in the input, a Login that is denied leaves it unauthenticated,
\* and a Logout is followed by a run.
C25_NothingBeforeLogin ==
    [][ /\ ~session.authenticated =>
              /\ calls' = calls \/ DOMAIN calls' \cap SecureQueries = {}
              /\ ~(script' = "secure" /\ pc' \in {"rendered", "failed"})
              /\ (pc \in {"idle", "rerun"} /\ pc' \notin {"idle", "rerun"}
                     /\ script' # "plain") => pc' = "login"
        /\ (~session.authenticated /\ session'.authenticated) =>
              /\ pc \in {"login", "denied"}
              /\ session'.password = correct_password
        /\ pc' = "denied" => ~session'.authenticated
        /\ (session.authenticated /\ ~session'.authenticated) => pc' = "idle"
      ]_vars

\* the run after a Logout stopped at the login form: the session had been
\* logged in and had fetched the transaction frame
C25_Witness ==
    /\ pc = "login"
    /\ ~session.authenticated
    /\ session.password = correct_password
    /\ cache["secure.transaction_success"].hit
    /\ calls = NoCalls

-----------------------------------------------------------------------------
(* C27 *)

\* C27: a run ends in the st.rerun() of the auto-refresh only with
\* auto-refresh on and more than refresh_every_min * 60 seconds after
\* _last_refresh_ts, and it has stored the time of the run in
\* _last_refresh_ts by then, so that the test fails for the run it starts:
\* that run does not end in another auto-rerun.  _last_refresh_ts changes in
\* no other step, so two auto-reruns are more than an interval apart.
C27_AutoRefreshOncePerInterval ==
    [][ /\ pc' = "rerun" =>
              /\ session.auto_refresh
              /\ now - session.last_refresh_ts > session.refresh_every_min * 60
              /\ session'.last_refresh_ts = now
              /\ ~(now' - session'.last_refresh_ts
                       > session'.refresh_every_min * 60)
        /\ pc = "rerun" => pc' # "rerun"
        /\ session'.last_refresh_ts # session.last_refresh_ts => pc' = "rerun"
      ]_vars

\* the run an auto-refresh started, later than the first second of the
\* session, has loaded the data and shows the page
C27_Witness ==
    /\ pc = "rendered"
    /\ session.auto_refresh
    /\ session.last_refresh_ts = now
    /\ now > SessionStart
    /\ calls # NoCalls

-----------------------------------------------------------------------------
(* C26 *)

\* a step in which a script runs and calls get_bigquery_data
CallingStep ==
    /\ pc \in {"idle", "rerun"}
    /\ pc' \in {"rendered", "failed"} \/ calls' # calls

\* C26: a call of get_bigquery_data for a query_name whose entry is less
\* than ttl = 300 seconds old returns the value of the entry, a frame or the
\* None of a failed fetch, runs no query and leaves the entry as it is,
\* whatever the warehouse holds by then, whether the source answers, and
\* whatever started the run.
C26_MemoizedWithinTtl ==
    [][ \A q \in CacheKeys :
            (/\ CallingStep
             /\ q \in DOMAIN calls'
             /\ cache[q].hit
             /\ now - cache[q].at < ttl) =>
                /\ calls'[q].value = cache[q].value
                /\ ~calls'[q].executed
                /\ cache'[q] = cache[q]
      ]_vars

\* with all credentials there, a run some time after a failed fetch of the
\* transaction frame got the None of the cache without running the query
C26_Witness ==
    /\ pc = "failed"
    /\ script = "secure"
    /\ missing_fields = {}
    /\ calls # NoCalls
    /\ calls["secure.transaction_success"] =
           [value |-> None, executed |-> FALSE, raised |-> FALSE]
    /\ cache["secure.transaction_success"].at < now
    /\ now - cache["secure.transaction_success"].at < ttl

-----------------------------------------------------------------------------
(* C28 *)

\* C28: every call of get_bigquery_data returns: None or a frame.  It
\* returns None, without having run a query, for a query_name of no query
\* table and when a required credential is missing, and it returns None when
\* the query it ran raised.
C28_FetchReturnsNone ==
    \A q \in DOMAIN calls :
        /\ calls[q].value.is_none => calls[q].value = None
        /\ q \notin queries => (calls[q].value = None /\ ~calls[q].executed)
        /\ missing_fields # {} => (calls[q].value = None /\ ~calls[q].executed)
        /\ calls[q].raised => calls[q].value = None

\* with all credentials there, a call with a name of no query returned None
\* without running a query, after a fetch of the transaction frame that
\* raised had returned None
C28_Witness ==
    /\ missing_fields = {}
    /\ UnknownQuery \in DOMAIN calls
    /\ calls[UnknownQuery] = [value |-> None, executed |-> FALSE, raised |-> FALSE]
    /\ cache["secure.transaction_success"].hit
    /\ cache["secure.transaction_success"].value = None

\* without the private key, a run of the Health Overview got None for the
\* transaction frame without running a query
C28_WitnessCredentials ==
    /\ missing_fields # {}
    /\ pc = "failed"
    /\ "secure.transaction_success" \in DOMAIN calls
    /\ calls["secure.transaction_success"] =
           [value |-> None, executed |-> FALSE, raised |-> FALSE]

=============================================================================
